---- MODULE Spec2Model ----
(***************************************************************************)
(* Customer health scoring of the GTM user-health analyzer.                *)
(*                                                                         *)
(* Two scorers live in the repository: the orchestrator's                  *)
(* (_calculate_*_score_from_dict, _calculate_*_score and the inline        *)
(* overall/status computation of the _create_*_score methods) and          *)
(* HealthScoringTool._run.  Both are modelled, as they are written.        *)
(*                                                                         *)
(* Numbers.  Customer fields are integers; renewal_probability is held in  *)
(* hundredths (70 is 0.7).  The component formulas of the orchestrator     *)
(* divide; they are computed here over a common denominator and truncated  *)
(* toward zero, as int() does.  The weighted sum                           *)
(*     int(usage_score * 0.4 + relationship_score * 0.3 + ... * 0.3)       *)
(* is evaluated in IEEE-754 binary64, where 0.4 and 0.3 are not exact: the *)
(* operators Dbl* below carry the exact double through the two products    *)
(* and two additions, so that the truncation sees the value Python sees.   *)
(***************************************************************************)
EXTENDS Integers, Sequences, FiniteSets, TLC

VARIABLES
    customer_data,   \* the collected record handed to the dict scorers / the tool
    frames,          \* the three DataFrames of the static source, seen for one customer_id
    scores_in,       \* arguments of a direct _generate_recommendations call
    pc,              \* "collected" | "frames" | "scores" | "done"
    path,            \* which scorer produced health_score
    health_score,    \* the CustomerHealthScore (or the tool's result dict)
    orchestrator,    \* CustomerHealthOrchestrator: the four source-selection fields
    env,             \* the process environment (os.getenv) and installed libraries
    store,           \* what the external collaborator holds or does for the operation
    request,         \* the handle_call_tool request suspended in asyncio.wait_for
    response,        \* what the operation under study returned
    served           \* how many requests handle_call_tool has taken

serverVars == <<orchestrator, env, store, request, response, served>>

vars == <<customer_data, frames, scores_in, pc, path, health_score,
          orchestrator, env, store, request, response, served>>

----------------------------------------------------------------------------
(* Arithmetic helpers *)

Min(a, b) == IF a <= b THEN a ELSE b

Max(a, b) == IF a >= b THEN a ELSE b

Abs(a) == IF a >= 0 THEN a ELSE -a

SetMax(S) == CHOOSE m \in S : \A n \in S : n <= m

\* Python int(): truncation toward zero of the rational a / b, b > 0.
TruncDiv(a, b) == IF a >= 0 THEN a \div b ELSE -((-a) \div b)

----------------------------------------------------------------------------
(* IEEE-754 binary64 arithmetic for  u * 0.4 + r * 0.3 + s * 0.3.          *)
(*                                                                         *)
(* Every double that occurs is an integer multiple N of 2^-54.  A double   *)
(* is carried as [x, low, err]: x is the value real arithmetic would give, *)
(* in tenths; low is N mod LowMod; err is 10*N - x*2^54, the distance of   *)
(* the double from the real value in tenths of 2^-54.  The literal 0.4 is  *)
(* the double (0.4*2^54 + 0.4) * 2^-54, 0.3 is (0.3*2^54 - 0.2) * 2^-54   *)
(* and 0.7 is (0.7*2^54 - 0.8) * 2^-54.                                    *)

LowMod == 65536

\* low 16 bits of the significand of the literal 0.4 (0x1.999999999999Ap-2)
M4Low == 39322

\* low 16 bits of the significand of the literal 0.3 (0x1.3333333333333p-2)
M3Low == 13107

DblSign(d) ==
    IF d.x > 0 THEN 1
    ELSE IF d.x < 0 THEN -1
    ELSE IF d.err > 0 THEN 1
    ELSE IF d.err < 0 THEN -1
    ELSE 0

\* |value| >= 2^j, for j >= -1
DblAtLeastPow2(d, j) ==
    LET a == 2 * Abs(d.x)
        t == 10 * (2 ^ (j + 1))
    IN  \/ a > t
        \/ a = t /\ d.err * DblSign(d) >= 0

\* unit in the last place of the binade the value lies in, in units of 2^-54
DblQuantum(d) ==
    IF d.x = 0 THEN 1
    ELSE LET J == {j \in -1 .. 13 : DblAtLeastPow2(d, j)}
         IN  IF J = {} THEN 1 ELSE 2 ^ (SetMax(J) + 2)

\* round to nearest, ties to even, to the 53-bit significand
DblRound(d) ==
    LET q == DblQuantum(d)
        s == DblSign(d)
        alow == (IF s > 0 THEN d.low ELSE -d.low) % (2 * q)
        m == alow % q
        half == q \div 2
        delta == IF m < half THEN -m
                 ELSE IF m > half THEN q - m
                 ELSE IF (alow - m) \div q = 0 THEN -m ELSE q - m
    IN  IF q = 1 THEN d
        ELSE [x |-> d.x, low |-> (d.low + s * delta) % LowMod, err |-> d.err + 10 * s * delta]

\* float(u) * 0.4
DblMul04(u) == DblRound([x |-> 4 * u, low |-> (u * M4Low) % LowMod, err |-> 4 * u])

\* low 16 bits of the significand of the literal 0.7 (0x1.6666666666666p-1)
M7Low == 52428

\* float(u) * 0.7
DblMul07(u) == DblRound([x |-> 7 * u, low |-> (u * M7Low) % LowMod, err |-> -8 * u])

\* float(u) * 0.3
DblMul03(u) == DblRound([x |-> 3 * u, low |-> (u * M3Low) % LowMod, err |-> -2 * u])

DblAdd(a, b) ==
    DblRound([x |-> a.x + b.x, low |-> (a.low + b.low) % LowMod, err |-> a.err + b.err])

\* int(d): truncation toward zero of the double
DblInt(d) ==
    IF d.x % 10 # 0 THEN TruncDiv(d.x, 10)
    ELSE LET k == TruncDiv(d.x, 10)
         IN  IF k > 0 /\ d.err < 0 THEN k - 1
             ELSE IF k < 0 /\ d.err > 0 THEN k + 1
             ELSE k

----------------------------------------------------------------------------
(* Overall score and status: the same three lines in every scorer *)

\* the weighted sum rounded to the nearest integer instead of truncated
OverallScoreRounded(u, r, s) == (4 * u + 3 * r + 3 * s + 5) \div 10

\* int(usage_score * 0.4 + relationship_score * 0.3 + support_score * 0.3)
OverallScore(u, r, s) ==
    DblInt(DblAdd(DblAdd(DblMul04(u), DblMul03(r)), DblMul03(s)))

\* the healthy band opened at 80 instead of closed
HealthStatusOfStrict(overall_score) ==
    IF overall_score > 80 THEN "healthy"
    ELSE IF overall_score >= 60 THEN "at_risk"
    ELSE "critical"

HealthStatusOf(overall_score) ==
    IF overall_score >= 80 THEN "healthy"
    ELSE IF overall_score >= 60 THEN "at_risk"
    ELSE "critical"

----------------------------------------------------------------------------
(* Recommendations.  A Recommendation is represented by the rule that made *)
(* it; the action texts of the nine rules are pairwise distinct.           *)

UsageRule(usage_score) ==
    IF usage_score < 40 THEN <<"usage_training">>
    ELSE IF usage_score < 70 THEN <<"usage_guides">>
    ELSE <<>>

RelationshipRule(relationship_score) ==
    IF relationship_score < 40 THEN <<"relationship_checkin">>
    ELSE IF relationship_score < 70 THEN <<"relationship_qbr">>
    ELSE <<>>

SupportRule(support_score) ==
    IF support_score < 40 THEN <<"support_tickets">>
    ELSE IF support_score < 70 THEN <<"support_review">>
    ELSE <<>>

StatusRule(health_status) ==
    IF health_status = "critical" THEN <<"status_intervention">>
    ELSE IF health_status = "at_risk" THEN <<"status_action_plan">>
    ELSE <<"status_expansion">>

\* the cut taken after two recommendations
FirstTwo(recs) == SubSeq(recs, 1, Min(Len(recs), 2))

\* recommendations[:3]
FirstThree(recs) == SubSeq(recs, 1, Min(Len(recs), 3))

\* the status rule appended first, so that the cut drops a threshold rule
GenerateRecommendationsStatusFirst(usage_score, relationship_score, support_score, health_status) ==
    FirstThree(StatusRule(health_status) \o UsageRule(usage_score)
               \o RelationshipRule(relationship_score) \o SupportRule(support_score))

GenerateRecommendations(usage_score, relationship_score, support_score, health_status) ==
    FirstThree(UsageRule(usage_score) \o RelationshipRule(relationship_score)
               \o SupportRule(support_score) \o StatusRule(health_status))

----------------------------------------------------------------------------
(* The orchestrator's dict scorers.  A block is "absent" (key missing),    *)
(* "empty" ({}) or "full"; customer_data.get(key, {}) makes absent and     *)
(* empty the same thing for them.                                          *)

Falsy(block) == block.kind # "full"

\* int(min(2L, 40) + min(a/60*30, 30) + min(7.5f, 30)), in halves
CalculateUsageScoreFromDict(usage_data) ==
    IF Falsy(usage_data) THEN 0
    ELSE TruncDiv(  2 * Min(usage_data.total_logins * 2, 40)
                  + Min(usage_data.avg_session_duration, 60)
                  + Min(15 * usage_data.features_used, 60), 2)

\* int(min(e, 100)*0.5 + min(cv/10000*20, 20) + rp*30), in thousandths
CalculateRelationshipScoreFromDict(relationship_data) ==
    IF Falsy(relationship_data) THEN 0
    ELSE TruncDiv(  500 * Min(relationship_data.engagement_score, 100)
                  + Min(2 * relationship_data.contract_value, 20000)
                  + 300 * relationship_data.renewal_probability, 1000)

\* missing support data scored like missing usage data
CalculateSupportScoreFromDictMissingZero(support_data) ==
    IF Falsy(support_data) THEN 0
    ELSE LET final6 ==   120 * support_data.satisfaction_score
                       - 90 * support_data.open_tickets
                       - 60 * support_data.escalations
                       - (IF support_data.avg_resolution_hours > 0
                          THEN Max(0, 5 * (support_data.avg_resolution_hours - 24)) ELSE 0)
         IN  Max(0, Min(100, TruncDiv(final6, 6)))

\* max(0, min(100, int(sat/5*100 - 15t - 10e - resolution_penalty))), in sixths
CalculateSupportScoreFromDict(support_data) ==
    IF Falsy(support_data) THEN 100
    ELSE LET resolution_penalty6 ==
                 IF support_data.avg_resolution_hours > 0
                 THEN Max(0, 5 * (support_data.avg_resolution_hours - 24))
                 ELSE 0
             final6 ==   120 * support_data.satisfaction_score
                       - 90 * support_data.open_tickets
                       - 60 * support_data.escalations
                       - resolution_penalty6
         IN  Max(0, Min(100, TruncDiv(final6, 6)))

\* lines 697-734 / 749-790: the body shared by _create_single_customer_score
\* and the loop of _create_airtable_customer_scores
DictHealthScore(data) ==
    LET usage_score == CalculateUsageScoreFromDict(data.usage_data)
        relationship_score == CalculateRelationshipScoreFromDict(data.relationship_data)
        support_score == CalculateSupportScoreFromDict(data.support_data)
        overall_score == OverallScore(usage_score, relationship_score, support_score)
        health_status == HealthStatusOf(overall_score)
    IN  [usage_score |-> usage_score,
         relationship_score |-> relationship_score,
         support_score |-> support_score,
         overall_score |-> overall_score,
         health_status |-> health_status,
         recommendations |-> GenerateRecommendations(usage_score, relationship_score,
                                                     support_score, health_status)]

----------------------------------------------------------------------------
(* HealthScoringTool._run.  It tests for the key, so an empty block is     *)
(* scored through the .get defaults.                                       *)

Clamp(v) == Max(0, Min(100, v))

ToolGet(block, field, default) == IF block.kind = "full" THEN block[field] ELSE default

ToolUsageScore(usage) ==
    IF usage.kind = "absent" THEN 0
    ELSE LET total_logins == ToolGet(usage, "total_logins", 0)
             avg_session == ToolGet(usage, "avg_session_duration", 0)
             features_used == ToolGet(usage, "features_used", 0)
             trend == ToolGet(usage, "trend", "stable")
         IN    (IF total_logins >= 50 THEN 40
                ELSE IF total_logins >= 25 THEN 30
                ELSE IF total_logins >= 10 THEN 20 ELSE 10)
             + (IF avg_session >= 45 THEN 30
                ELSE IF avg_session >= 25 THEN 20
                ELSE IF avg_session >= 15 THEN 10 ELSE 0)
             + (IF features_used >= 5 THEN 20
                ELSE IF features_used >= 3 THEN 15
                ELSE IF features_used >= 2 THEN 10 ELSE 0)
             + (IF trend = "increasing" THEN 10
                ELSE IF trend = "stable" THEN 5 ELSE 0)

\* last_contact_date is "missing" (None or no key), "unparseable" or "date" with
\* days = (datetime.now() - date).days
ToolContactScore(last_contact) ==
    IF last_contact.kind = "missing" THEN 0
    ELSE IF last_contact.kind = "unparseable" THEN 20
    ELSE IF last_contact.days <= 7 THEN 40
    ELSE IF last_contact.days <= 14 THEN 30
    ELSE IF last_contact.days <= 30 THEN 20
    ELSE 10

ToolRelationshipScore(relationship) ==
    IF relationship.kind = "absent" THEN 0
    ELSE LET last_contact == ToolGet(relationship, "last_contact_date", [kind |-> "missing", days |-> 0])
             engagement_score == ToolGet(relationship, "engagement_score", 0)
             emails_responded == ToolGet(relationship, "emails_responded", 0)
             meetings_attended == ToolGet(relationship, "meetings_attended", 0)
             contract_value == ToolGet(relationship, "contract_value", 0)
             renewal_probability == ToolGet(relationship, "renewal_probability", 50)
         IN    ToolContactScore(last_contact)
             + (IF engagement_score > 80 \/ (emails_responded > 5 /\ meetings_attended > 2) THEN 40
                ELSE IF engagement_score > 60 \/ (emails_responded > 3 /\ meetings_attended > 1) THEN 30
                ELSE IF engagement_score > 40 \/ emails_responded > 1 THEN 20
                ELSE 10)
             + (IF contract_value > 100000 /\ renewal_probability > 80 THEN 20
                ELSE IF contract_value > 50000 /\ renewal_probability > 60 THEN 15
                ELSE IF renewal_probability > 40 THEN 10
                ELSE 5)

ToolSupportScore(support) ==
    IF support.kind = "absent" THEN 100
    ELSE LET open_tickets == ToolGet(support, "open_tickets", 0)
             avg_resolution == ToolGet(support, "avg_resolution_hours", 0)
             satisfaction == ToolGet(support, "satisfaction_score", 5)
             escalations == ToolGet(support, "escalations", 0)
         IN  100 - Min(open_tickets * 15, 50)
                 - (IF avg_resolution > 72 THEN 20 ELSE IF avg_resolution > 48 THEN 10 ELSE 0)
                 - (IF satisfaction < 3 THEN 30 ELSE IF satisfaction < 4 THEN 15 ELSE 0)
                 - Min(escalations * 10, 30)

\* the tool's result dict carries no recommendations
ToolHealthScore(data) ==
    LET usage_score == Clamp(ToolUsageScore(data.usage_data))
        relationship_score == Clamp(ToolRelationshipScore(data.relationship_data))
        support_score == Clamp(ToolSupportScore(data.support_data))
        overall_score == OverallScore(usage_score, relationship_score, support_score)
    IN  [usage_score |-> usage_score,
         relationship_score |-> relationship_score,
         support_score |-> support_score,
         overall_score |-> overall_score,
         health_status |-> HealthStatusOf(overall_score),
         recommendations |-> <<>>]

----------------------------------------------------------------------------
(* The orchestrator's DataFrame scorers (static source, all customers).    *)
(* frames holds, for one customer_id, what the scorers read off the rows   *)
(* of that customer: the login count sum, the session mean and the feature *)
(* count; the first CRM row; the open-ticket count, the closed-ticket mean *)
(* resolution time (in steps of 6 hours, so that the penalty is a whole    *)
(* number) and the sentiment shared by the customer's tickets.             *)

\* same formula as _calculate_usage_score_from_dict, on the aggregates
CalculateUsageScore(usage_df) ==
    IF usage_df.kind = "absent" THEN 0
    ELSE TruncDiv(  2 * Min(usage_df.total_logins * 2, 40)
                  + Min(usage_df.avg_session_duration, 60)
                  + Min(15 * usage_df.features_used, 60), 2)

OutcomeScore(contact_outcome) ==
    CASE contact_outcome = "very_positive" -> 35
      [] contact_outcome = "positive" -> 25
      [] contact_outcome = "neutral" -> 15
      [] contact_outcome = "negative" -> 5
      [] contact_outcome = "no_response" -> 0
      [] OTHER -> 10

\* int(max(0, 40 - days) + outcome_score + min(account_value/10000, 25));
\* pd.to_datetime raising on the date is caught: 50.  A missing date is NaT,
\* whose .days is NaN, and max(0, NaN) is 0.
CalculateRelationshipScore(relationship_df) ==
    IF relationship_df.kind = "absent" THEN 0
    ELSE IF relationship_df.last_contact_date.kind = "unparseable" THEN 50
    ELSE LET contact_score ==
                 IF relationship_df.last_contact_date.kind = "missing" THEN 0
                 ELSE Max(0, 40 - relationship_df.last_contact_date.days)
         IN  TruncDiv(  10000 * (contact_score + OutcomeScore(relationship_df.contact_outcome))
                      + Min(relationship_df.account_value, 250000), 10000)

SentimentScore(sentiment) ==
    CASE sentiment = "very_positive" -> 100
      [] sentiment = "positive" -> 80
      [] sentiment = "neutral" -> 60
      [] sentiment = "negative" -> 30
      [] sentiment = "very_negative" -> 10
      [] OTHER -> 50

\* max(0, min(100, int(score * 0.7 + avg_sentiment * 0.3)))
CalculateSupportScore(support_df) ==
    IF support_df.kind = "absent" THEN 100
    ELSE LET ticket_penalty == support_df.open_tickets * 15
             resolution_penalty ==
                 IF support_df.avg_resolution_hours > 0
                 THEN Max(0, (5 * (support_df.avg_resolution_hours - 24)) \div 6)
                 ELSE 0
             score == 100 - ticket_penalty - resolution_penalty
             final_score == DblInt(DblAdd(DblMul07(score),
                                          DblMul03(SentimentScore(support_df.sentiment))))
         IN  Max(0, Min(100, final_score))

\* the loop body of _create_all_customer_scores, lines 639-681
FrameHealthScore(f) ==
    LET usage_score == CalculateUsageScore(f.usage_df)
        relationship_score == CalculateRelationshipScore(f.relationship_df)
        support_score == CalculateSupportScore(f.support_df)
        overall_score == OverallScore(usage_score, relationship_score, support_score)
        health_status == HealthStatusOf(overall_score)
    IN  [usage_score |-> usage_score,
         relationship_score |-> relationship_score,
         support_score |-> support_score,
         overall_score |-> overall_score,
         health_status |-> health_status,
         recommendations |-> GenerateRecommendations(usage_score, relationship_score,
                                                     support_score, health_status)]

----------------------------------------------------------------------------
(* Inputs *)

MaxFeatures == 6

MaxTickets == 4

MaxEscalations == 4

MaxSatisfaction == 5

Trends == {"increasing", "stable", "decreasing"}

LoginCounts == {0, 10, 25, 60}

SessionMinutes == {0, 15, 30, 50}

ContactDates ==
    {[kind |-> "missing", days |-> 0], [kind |-> "unparseable", days |-> 0]}
    \cup {[kind |-> "date", days |-> d] : d \in {-10, 5, 10, 20, 45}}

EngagementScores == {30, 50, 75, 90}

EmailCounts == {0, 3, 6}

MeetingCounts == {0, 1, 3}

ContractValues == {-50000, 0, 60000, 150000}

RenewalProbabilities == {30, 50, 70, 90}

ResolutionHours == {10, 24, 60, 80}

AbsentBlock == [kind |-> "absent"]

EmptyBlock == [kind |-> "empty"]

UsageBlocks ==
    {AbsentBlock, EmptyBlock} \cup
    [kind : {"full"}, total_logins : LoginCounts, avg_session_duration : SessionMinutes,
     features_used : 0 .. MaxFeatures, trend : Trends]

RelationshipBlocks ==
    {AbsentBlock, EmptyBlock} \cup
    [kind : {"full"}, last_contact_date : ContactDates, engagement_score : EngagementScores,
     emails_responded : EmailCounts, meetings_attended : MeetingCounts,
     contract_value : ContractValues, renewal_probability : RenewalProbabilities]

SupportBlocks ==
    {AbsentBlock, EmptyBlock} \cup
    [kind : {"full"}, open_tickets : 0 .. MaxTickets, avg_resolution_hours : ResolutionHours,
     satisfaction_score : 2 .. MaxSatisfaction, escalations : 0 .. MaxEscalations]

\* the blocks every other block is combined with
StrongUsage ==
    [kind |-> "full", total_logins |-> 60, avg_session_duration |-> 50,
     features_used |-> 6, trend |-> "increasing"]

WeakUsage ==
    [kind |-> "full", total_logins |-> 0, avg_session_duration |-> 0,
     features_used |-> 0, trend |-> "decreasing"]

StrongRelationship ==
    [kind |-> "full", last_contact_date |-> [kind |-> "date", days |-> 5],
     engagement_score |-> 90, emails_responded |-> 0, meetings_attended |-> 0,
     contract_value |-> 150000, renewal_probability |-> 90]

WeakRelationship ==
    [kind |-> "full", last_contact_date |-> [kind |-> "date", days |-> 45],
     engagement_score |-> 30, emails_responded |-> 0, meetings_attended |-> 0,
     contract_value |-> -50000, renewal_probability |-> 30]

StrongSupport ==
    [kind |-> "full", open_tickets |-> 0, avg_resolution_hours |-> 10,
     satisfaction_score |-> 5, escalations |-> 0]

WeakSupport ==
    [kind |-> "full", open_tickets |-> 4, avg_resolution_hours |-> 80,
     satisfaction_score |-> 2, escalations |-> 4]

BaseUsage == {AbsentBlock, StrongUsage, WeakUsage}

BaseRelationship == {AbsentBlock, StrongRelationship, WeakRelationship}

BaseSupport == {AbsentBlock, StrongSupport, WeakSupport}

\* one block ranges over all its values while the other two range over the base blocks
CustomerRecords ==
    [usage_data : UsageBlocks, relationship_data : BaseRelationship, support_data : BaseSupport]
    \cup [usage_data : BaseUsage, relationship_data : RelationshipBlocks, support_data : BaseSupport]
    \cup [usage_data : BaseUsage, relationship_data : BaseRelationship, support_data : SupportBlocks]

ContactOutcomes == {"very_positive", "positive", "neutral", "negative", "no_response", "callback"}

Sentiments == {"very_positive", "positive", "neutral", "negative", "very_negative", "mixed"}

FrameResolutionHours == {0, 24, 48, 96}

UsageFrames ==
    {AbsentBlock} \cup
    [kind : {"full"}, total_logins : LoginCounts, avg_session_duration : SessionMinutes,
     features_used : 1 .. MaxFeatures]

RelationshipFrames ==
    {AbsentBlock} \cup
    [kind : {"full"}, last_contact_date : ContactDates, contact_outcome : ContactOutcomes,
     account_value : ContractValues]

SupportFrames ==
    {AbsentBlock} \cup
    [kind : {"full"}, open_tickets : 0 .. MaxTickets,
     avg_resolution_hours : FrameResolutionHours, sentiment : Sentiments]

BaseUsageFrames ==
    {AbsentBlock,
     [kind |-> "full", total_logins |-> 60, avg_session_duration |-> 50, features_used |-> 6],
     [kind |-> "full", total_logins |-> 0, avg_session_duration |-> 15, features_used |-> 1]}

BaseRelationshipFrames ==
    {AbsentBlock,
     [kind |-> "full", last_contact_date |-> [kind |-> "date", days |-> 5],
      contact_outcome |-> "very_positive", account_value |-> 150000],
     [kind |-> "full", last_contact_date |-> [kind |-> "date", days |-> 45],
      contact_outcome |-> "negative", account_value |-> 0]}

BaseSupportFrames ==
    {AbsentBlock,
     [kind |-> "full", open_tickets |-> 0, avg_resolution_hours |-> 24, sentiment |-> "very_positive"],
     [kind |-> "full", open_tickets |-> 4, avg_resolution_hours |-> 96, sentiment |-> "negative"]}

\* a customer_id of the static source has rows in at least one of the three frames
StaticFrames ==
    ([usage_df : UsageFrames, relationship_df : BaseRelationshipFrames, support_df : BaseSupportFrames]
     \cup [usage_df : BaseUsageFrames, relationship_df : RelationshipFrames, support_df : BaseSupportFrames]
     \cup [usage_df : BaseUsageFrames, relationship_df : BaseRelationshipFrames, support_df : SupportFrames])
    \ {[usage_df |-> AbsentBlock, relationship_df |-> AbsentBlock, support_df |-> AbsentBlock]}

ScoreValues == {0, 39, 40, 69, 70, 100}

HealthStatuses == {"healthy", "at_risk", "critical"}

NoRecord == [usage_data |-> AbsentBlock, relationship_data |-> AbsentBlock, support_data |-> AbsentBlock]

NoFrames == [usage_df |-> AbsentBlock, relationship_df |-> AbsentBlock, support_df |-> AbsentBlock]

NoScores == [usage_score |-> 0, relationship_score |-> 0, support_score |-> 0, health_status |-> "critical"]

NoHealthScore ==
    [usage_score |-> 0, relationship_score |-> 0, support_score |-> 0, overall_score |-> 0,
     health_status |-> "critical", recommendations |-> <<>>]

\* The parts of the state an operation does not involve
NoOrchestrator ==
    [current_data_source |-> "static", use_static_data |-> TRUE,
     active_airtable_base_id |-> "none", active_airtable_base_info |-> "none"]

NoEnv == [kind |-> "none"]

NoStore == [kind |-> "none"]

NoRequest == [stage |-> "idle"]

NoResponse == [kind |-> "none"]

ServerIdle ==
    /\ orchestrator = NoOrchestrator
    /\ env = NoEnv
    /\ store = NoStore
    /\ request = NoRequest
    /\ response = NoResponse
    /\ served = 0

ScoringIdle ==
    /\ customer_data = NoRecord
    /\ frames = NoFrames
    /\ scores_in = NoScores
    /\ path = "none"
    /\ health_score = NoHealthScore

scoringVars == <<customer_data, frames, scores_in, path, health_score>>

----------------------------------------------------------------------------
(* The scoring machine: a record (or the frames of a customer) has been    *)
(* collected and one of the scorers turns it into a health score.          *)

Init ==
    /\ \/ /\ pc = "collected"
          /\ customer_data \in CustomerRecords
          /\ frames = NoFrames
       \/ /\ pc = "frames"
          /\ customer_data = NoRecord
          /\ frames \in StaticFrames
    /\ scores_in = NoScores
    /\ path = "none"
    /\ health_score = NoHealthScore
    /\ ServerIdle

\* _create_single_customer_score
CreateSingleCustomerScore ==
    /\ pc = "collected"
    /\ health_score' = DictHealthScore(customer_data)
    /\ path' = "single"
    /\ pc' = "done"
    /\ UNCHANGED <<customer_data, frames, scores_in>>
    /\ UNCHANGED serverVars

\* _create_airtable_customer_scores, for one element of customers_data
CreateAirtableCustomerScores ==
    /\ pc = "collected"
    /\ health_score' = DictHealthScore(customer_data)
    /\ path' = "airtable_all"
    /\ pc' = "done"
    /\ UNCHANGED <<customer_data, frames, scores_in>>
    /\ UNCHANGED serverVars

\* HealthScoringTool._run
HealthScoringToolRun ==
    /\ pc = "collected"
    /\ health_score' = ToolHealthScore(customer_data)
    /\ path' = "tool"
    /\ pc' = "done"
    /\ UNCHANGED <<customer_data, frames, scores_in>>
    /\ UNCHANGED serverVars

\* _create_all_customer_scores, for one customer_id
CreateAllCustomerScores ==
    /\ pc = "frames"
    /\ health_score' = FrameHealthScore(frames)
    /\ path' = "static_all"
    /\ pc' = "done"
    /\ UNCHANGED <<customer_data, frames, scores_in>>
    /\ UNCHANGED serverVars

Next ==
    \/ CreateSingleCustomerScore
    \/ CreateAirtableCustomerScores
    \/ HealthScoringToolRun
    \/ CreateAllCustomerScores

Spec == Init /\ [][Next]_vars

----------------------------------------------------------------------------
(* _generate_recommendations as a function of its four arguments *)

InitScores ==
    /\ pc = "scores"
    /\ customer_data = NoRecord
    /\ frames = NoFrames
    /\ scores_in \in [usage_score : ScoreValues, relationship_score : ScoreValues,
                      support_score : ScoreValues, health_status : HealthStatuses]
    /\ path = "none"
    /\ health_score = NoHealthScore
    /\ ServerIdle

GenerateRecommendationsCall ==
    /\ pc = "scores"
    /\ health_score' = [NoHealthScore EXCEPT
           !.usage_score = scores_in.usage_score,
           !.relationship_score = scores_in.relationship_score,
           !.support_score = scores_in.support_score,
           !.health_status = scores_in.health_status,
           !.recommendations = GenerateRecommendations(scores_in.usage_score,
                                   scores_in.relationship_score, scores_in.support_score,
                                   scores_in.health_status)]
    /\ path' = "recommendations"
    /\ pc' = "done"
    /\ UNCHANGED <<customer_data, frames, scores_in>>
    /\ UNCHANGED serverVars

NextScores == GenerateRecommendationsCall

SpecScores == InitScores /\ [][NextScores]_vars

----------------------------------------------------------------------------
(* The orchestrator's source selection and the MCP server's                *)
(* handle_call_tool.  An exception is a value: a body that raises yields   *)
(* Raised, and every try/except of the source is a TryExcept.              *)

DataSources == {"static", "airtable", "hubspot", "zapier"}

BaseIds == {"appA", "appB"}

\* the number of requests the server takes in a run
MaxRequests == 2

\* os.getenv, and whether pyairtable can be imported.  The Airtable settings and
\* USE_STATIC_DATA vary; of the two integrations that only test for their key, one
\* is configured and one is not.
Environments ==
    [AIRTABLE_API_KEY : BOOLEAN, AIRTABLE_BASE_ID : {"none", "appA"},
     HUBSPOT_API_KEY : {TRUE}, ZAPIER_API_KEY : {FALSE},
     USE_STATIC_DATA : BOOLEAN, DEFAULT_DATA_SOURCE : {"airtable"},
     pyairtable : {TRUE}]

\* CustomerHealthOrchestrator.__init__
NewOrchestrator(e) ==
    [current_data_source |-> IF e.USE_STATIC_DATA THEN "static" ELSE e.DEFAULT_DATA_SOURCE,
     use_static_data |-> e.USE_STATIC_DATA,
     active_airtable_base_id |-> e.AIRTABLE_BASE_ID,
     active_airtable_base_info |-> "none"]

\* what a store call does: answers, raises, answers with nothing, answers with
\* rows or fields of an unexpected shape
StoreModes == {"ok", "raises", "nothing", "malformed"}

ToolNames ==
    {"set_data_source", "get_data_source_status", "analyze_customer_health",
     "list_customers", "get_customer_details", "get_recommendations",
     "discover_airtable_bases", "discover_airtable_schema",
     "find_airtable_customer_tables", "connect_to_airtable_base",
     "get_current_airtable_base"}

\* the tools whose collection runs under asyncio.wait_for
DeadlineTools == {"analyze_customer_health", "get_customer_details", "get_recommendations"}

RequestNames == ToolNames \cup {"", "no_such_tool"}

CustomerIds == {"CUST001", "NOPE", "all"}

KnownCustomers == {"CUST001"}

NotADict ==
    [is_dict |-> FALSE, data_source |-> "missing", customer_id |-> "missing",
     format |-> "missing", base_id |-> "missing"]

\* the arguments dictionary, by the keys the handlers read ("missing": absent or
\* empty): not a dictionary, or the keys one of the tools reads
SourceArguments ==
    [is_dict : {TRUE}, data_source : DataSources \cup {"missing", "bogus"},
     customer_id : {"missing"}, format : {"missing"}, base_id : {"missing"}]

CustomerArguments ==
    [is_dict : {TRUE}, data_source : {"missing"},
     customer_id : CustomerIds \cup {"missing"}, format : {"missing", "summary"},
     base_id : {"missing"}]

BaseArguments ==
    [is_dict : {TRUE}, data_source : {"missing"},
     customer_id : {"missing"}, format : {"missing", "summary"},
     base_id : BaseIds \cup {"missing"}]

ArgumentsFor(name) ==
    {NotADict} \cup
    CASE name = "set_data_source" -> SourceArguments
      [] name \in DeadlineTools -> CustomerArguments
      [] name \in {"discover_airtable_schema", "find_airtable_customer_tables",
                   "connect_to_airtable_base"} -> BaseArguments
      [] OTHER -> {[NotADict EXCEPT !.is_dict = TRUE]}

Ok(text) == [raised |-> FALSE, payload |-> "success", text |-> text]

Err(text) == [raised |-> FALSE, payload |-> "error", text |-> text]

Raised == [raised |-> TRUE, payload |-> "none", text |-> "none"]

\* a try whose except clause lets the exception through
TryExceptReraises(out, text) == out

\* try: body / except Exception as e: return [TextContent(text=...)]
TryExcept(out, text) ==
    IF out.res.raised THEN [o |-> out.o, res |-> Err(text)] ELSE out

\* set_data_source
SetDataSource(o, e, data_source) ==
    IF data_source \notin DataSources
    THEN [o |-> o, success |-> FALSE]
    ELSE LET o1 == [o EXCEPT !.current_data_source = data_source]
             o2 == [o1 EXCEPT !.use_static_data = FALSE]
         IN  CASE data_source = "static" ->
                    [o |-> [o1 EXCEPT !.use_static_data = TRUE], success |-> TRUE]
               [] data_source = "airtable" ->
                    [o |-> o2, success |-> e.AIRTABLE_API_KEY /\ e.AIRTABLE_BASE_ID # "none"]
               [] data_source = "hubspot" ->
                    [o |-> o2, success |-> e.HUBSPOT_API_KEY]
               [] data_source = "zapier" ->
                    [o |-> o2, success |-> e.ZAPIER_API_KEY]

\* connect_to_airtable_base.  discover_base_schema returns None only when no
\* BaseInfo can be built ("nothing"); when the schema call raises it falls back to
\* probing and returns a BaseInfo named "Unknown Base".  A field of unexpected shape
\* makes find_customer_tables raise, which the except at 177 turns into a failure.
ConnectToAirtableBase(o, e, base_id, mode) ==
    IF \/ ~e.AIRTABLE_API_KEY
       \/ ~e.pyairtable
       \/ mode \in {"nothing", "malformed"}
    THEN [o |-> o, success |-> FALSE]
    ELSE [o |-> [current_data_source |-> "airtable", use_static_data |-> FALSE,
                 active_airtable_base_id |-> base_id,
                 active_airtable_base_info |-> base_id],
          success |-> TRUE]

\* data_sources as analyze_customer_health (236-240) and the server (378, 468) pick it
EffectiveSource(o) ==
    IF o.use_static_data \/ o.current_data_source = "static"
    THEN "static" ELSE o.current_data_source

NoSelection == [source |-> "none", base |-> "none"]

\* the data source and the Airtable base selected in state o
Selection(o) ==
    [source |-> EffectiveSource(o),
     base |-> IF EffectiveSource(o) = "airtable" THEN o.active_airtable_base_id ELSE "none"]

\* _get_data_sources_summary: the Data Sources line of the report
GetDataSourcesSummary(o, e) ==
    CASE o.use_static_data \/ o.current_data_source = "static" ->
            [source |-> "static", base |-> "none"]
      [] OTHER ->
            [source |-> o.current_data_source,
             base |-> IF o.current_data_source = "airtable"
                      THEN (IF e.AIRTABLE_BASE_ID = "none" THEN "Unknown" ELSE e.AIRTABLE_BASE_ID)
                      ELSE "none"]

\* what _collect_static_data builds for a customer the CSV files hold
StaticCustomerRecord ==
    [usage_data |-> [kind |-> "full", total_logins |-> 25, avg_session_duration |-> 30,
                     features_used |-> 3, trend |-> "stable"],
     relationship_data |-> [kind |-> "full", last_contact_date |-> [kind |-> "date", days |-> 20],
                            engagement_score |-> 75, emails_responded |-> 3,
                            meetings_attended |-> 1, contract_value |-> 60000,
                            renewal_probability |-> 70],
     support_data |-> [kind |-> "full", open_tickets |-> 1, avg_resolution_hours |-> 24,
                       satisfaction_score |-> 4, escalations |-> 1]]

\* ... and for an identifier no row matches: the three blocks stay {}
UnmatchedStaticRecord ==
    [usage_data |-> EmptyBlock, relationship_data |-> EmptyBlock, support_data |-> EmptyBlock]

\* the blocks _collect_airtable_data fills in for every Airtable customer
AirtableCustomerRecord ==
    [usage_data |-> [kind |-> "full", total_logins |-> 10, avg_session_duration |-> 30,
                     features_used |-> 3, trend |-> "stable"],
     relationship_data |-> [kind |-> "full", last_contact_date |-> [kind |-> "date", days |-> 45],
                            engagement_score |-> 75, emails_responded |-> 3,
                            meetings_attended |-> 1, contract_value |-> 60000,
                            renewal_probability |-> 70],
     support_data |-> [kind |-> "full", open_tickets |-> 0, avg_resolution_hours |-> 24,
                       satisfaction_score |-> 4, escalations |-> 0]]

\* the frames of two customers of the static source
StaticFramesOfAll ==
    << [usage_df |-> [kind |-> "full", total_logins |-> 60, avg_session_duration |-> 50,
                      features_used |-> 6],
        relationship_df |-> [kind |-> "full", last_contact_date |-> [kind |-> "date", days |-> 5],
                             contact_outcome |-> "very_positive", account_value |-> 150000],
        support_df |-> [kind |-> "full", open_tickets |-> 0, avg_resolution_hours |-> 24,
                        sentiment |-> "very_positive"]],
       [usage_df |-> [kind |-> "full", total_logins |-> 0, avg_session_duration |-> 15,
                      features_used |-> 1],
        relationship_df |-> [kind |-> "full", last_contact_date |-> [kind |-> "date", days |-> 45],
                             contact_outcome |-> "negative", account_value |-> 0],
        support_df |-> AbsentBlock] >>

CollectedError ==
    [kind |-> "error", rows |-> "none", record |-> NoRecord, from |-> NoSelection]

\* _collect_static_data.  "raises": read_csv raises; "nothing": the files hold no
\* rows; "malformed": the CRM file has no company_name column.
CollectStaticData(customer_identifier, mode) ==
    LET from == [source |-> "static", base |-> "none"]
    IN  IF mode = "raises" THEN CollectedError
        ELSE IF customer_identifier = "all"
        THEN [kind |-> "static_all",
              rows |-> CASE mode = "ok" -> "ok" [] mode = "nothing" -> "empty"
                         [] OTHER -> "malformed",
              record |-> NoRecord, from |-> from]
        ELSE IF mode = "ok" /\ customer_identifier \in KnownCustomers
        THEN [kind |-> "single", rows |-> "none", record |-> StaticCustomerRecord, from |-> from]
        ELSE IF mode = "malformed" /\ customer_identifier \in KnownCustomers
        THEN CollectedError
        ELSE [kind |-> "single", rows |-> "none", record |-> UnmatchedStaticRecord, from |-> from]

\* _collect_airtable_data: every failure, and a customer no search filter finds,
\* comes back as {"error": ...}
CollectAirtableData(customer_identifier, o, e, mode) ==
    LET from == [source |-> "airtable", base |-> o.active_airtable_base_id]
    IN  IF \/ ~e.AIRTABLE_API_KEY
           \/ o.active_airtable_base_id = "none"
           \/ ~e.pyairtable
           \/ mode # "ok"
        THEN CollectedError
        ELSE IF customer_identifier = "all"
        THEN [kind |-> "airtable_all", rows |-> "ok", record |-> NoRecord, from |-> from]
        ELSE IF customer_identifier \in KnownCustomers
        THEN [kind |-> "single", rows |-> "none", record |-> AirtableCustomerRecord, from |-> from]
        ELSE CollectedError

\* _collect_customer_data
CollectCustomerData(customer_identifier, data_source, o, e, mode) ==
    CASE data_source = "static" -> CollectStaticData(customer_identifier, mode)
      [] data_source = "airtable" -> CollectAirtableData(customer_identifier, o, e, mode)
      [] OTHER ->
            IF mode = "raises" THEN CollectedError
            ELSE [kind |-> "crew", rows |-> "none", record |-> NoRecord,
                  from |-> [source |-> data_source, base |-> "none"]]

\* _create_health_score_objects
CreateHealthScoreObjects(data) ==
    CASE data.kind = "airtable_all" ->
            << DictHealthScore(AirtableCustomerRecord), DictHealthScore(AirtableCustomerRecord) >>
      [] data.kind = "static_all" ->
            IF data.rows = "ok"
            THEN << FrameHealthScore(StaticFramesOfAll[1]), FrameHealthScore(StaticFramesOfAll[2]) >>
            ELSE << >>
      [] OTHER -> << DictHealthScore(data.record) >>

\* analyze_customer_health: the source is read from the orchestrator when the
\* coroutine runs
AnalyzeCustomerHealth(customer_identifier, o, e, mode) ==
    LET data == CollectCustomerData(customer_identifier, EffectiveSource(o), o, e, mode)
    IN  [scores |-> IF data.kind = "error" THEN << >> ELSE CreateHealthScoreObjects(data),
         data |-> data]

\* the text of the except clause that closes each tool's branch
ExceptText(name) ==
    CASE name = "set_data_source" -> "Error setting data source"
      [] name = "get_data_source_status" -> "Error getting data source status"
      [] name = "analyze_customer_health" -> "Analysis failed"
      [] name = "list_customers" -> "Error listing customers"
      [] name = "get_customer_details" -> "Error getting customer details"
      [] name = "get_recommendations" -> "Error getting recommendations"
      [] name = "discover_airtable_bases" -> "Error discovering bases"
      [] name = "discover_airtable_schema" -> "Error discovering schema"
      [] name = "find_airtable_customer_tables" -> "Error finding customer tables"
      [] name = "connect_to_airtable_base" -> "Error connecting to base"
      [] OTHER -> "Error getting base info"

\* the branches of handle_call_tool that answer without suspending
ToolBody(name, arguments, o, e, mode) ==
    LET same(res) == [o |-> o, res |-> res]
        \* AirtableDiscoveryTool(api_key) raises ImportError without pyairtable
        discovery(res) ==
            IF ~e.AIRTABLE_API_KEY THEN same(Err("AIRTABLE_API_KEY not configured"))
            ELSE IF ~e.pyairtable THEN same(Raised)
            ELSE same(res)
    IN  CASE name = "set_data_source" ->
                IF arguments.data_source = "missing"
                THEN same(Err("data_source parameter is required"))
                ELSE LET r == SetDataSource(o, e, arguments.data_source)
                     IN  [o |-> r.o,
                          res |-> IF r.success THEN Ok("Data source set")
                                  ELSE Err("Failed to set data source")]
          [] name = "get_data_source_status" -> same(Ok("Data Source Configuration"))
          [] name = "list_customers" ->
                LET data == CollectCustomerData("all", EffectiveSource(o), o, e, mode)
                IN  same(CASE data.kind = "error" -> Err("Error collecting customer data")
                           [] data.kind = "airtable_all" -> Ok("Available Customers")
                           [] data.kind = "static_all" ->
                                CASE data.rows = "ok" -> Ok("Available Customers")
                                  [] data.rows = "empty" -> Err("No customers found in dataset")
                                  [] OTHER -> Raised   \* crm['company_name']: KeyError
                           [] OTHER -> Err("Unexpected data format from orchestrator"))
          [] name = "discover_airtable_bases" ->
                discovery(IF mode = "ok" THEN Ok("Discovered Airtable Bases")
                          ELSE Err("No accessible bases found"))
          [] name = "discover_airtable_schema" ->
                IF arguments.base_id = "missing"
                THEN same(Err("base_id parameter is required"))
                ELSE discovery(CASE mode = "nothing" ->
                                      IF arguments.format = "missing"
                                      THEN Err("Could not generate discovery report")
                                      ELSE Err("Could not discover schema")
                                 [] mode = "malformed" -> Raised
                                 [] OTHER -> Ok("Base schema"))
          [] name = "find_airtable_customer_tables" ->
                IF arguments.base_id = "missing"
                THEN same(Err("base_id parameter is required"))
                ELSE discovery(CASE mode = "ok" -> Ok("Customer Tables in Base")
                                 [] mode = "malformed" -> Raised
                                 [] OTHER -> Err("No customer tables found"))
          [] name = "connect_to_airtable_base" ->
                IF arguments.base_id = "missing"
                THEN same(Err("base_id parameter is required"))
                ELSE LET r == ConnectToAirtableBase(o, e, arguments.base_id, mode)
                     IN  [o |-> r.o,
                          res |-> IF r.success THEN Ok("Successfully connected to Airtable base")
                                  ELSE Err("Failed to connect to base")]
          [] OTHER ->
                same(IF o.active_airtable_base_id = "none" THEN Ok("Not Connected")
                     ELSE Ok("Current Airtable Base"))

\* handle_call_tool, for a request that is answered in one step
HandleCallTool(name, arguments, o, e, mode) ==
    IF name = "" THEN [o |-> o, res |-> Err("Tool name is required")]
    ELSE IF ~arguments.is_dict THEN [o |-> o, res |-> Err("Arguments must be a dictionary")]
    ELSE IF name \notin ToolNames THEN [o |-> o, res |-> Err("Unknown tool")]
    ELSE TryExcept(TryExcept(ToolBody(name, arguments, o, e, mode), ExceptText(name)),
                   "Critical error executing tool")

NoTask == [scores |-> << >>, data |-> CollectedError]

\* the coroutine handed to asyncio.wait_for.  get_customer_details passes the
\* data_sources it evaluated when the handler was entered.
RunTask(req, o, e, mode) ==
    IF req.tool = "get_customer_details"
    THEN [scores |-> << >>,
          data |-> CollectCustomerData(req.customer_id, req.source, o, e, mode)]
    ELSE AnalyzeCustomerHealth(IF req.customer_id = "missing" THEN "all" ELSE req.customer_id,
                               o, e, mode)

\* asyncio.wait_for: TimeoutError is raised only if the task is still pending when
\* the handler is woken
WaitFor(task, done) ==
    IF done THEN [timed_out |-> FALSE, task |-> task]
    ELSE [timed_out |-> TRUE, task |-> NoTask]

TimedOutText(name) ==
    IF name = "analyze_customer_health" THEN "Analysis timed out" ELSE "Request timed out"

\* the rest of the three branches, from the return of wait_for on
FinishBody(req) ==
    LET w == WaitFor(req.task, req.stage = "finished")
        scores == w.task.scores
        data == w.task.data
    IN  CASE w.timed_out -> Err(TimedOutText(req.tool))
          [] req.tool = "analyze_customer_health" ->
                IF scores = << >> THEN Err("No customer data found or analysis failed")
                ELSE IF req.format = "summary" THEN Ok("summary report")
                ELSE Ok("detailed analysis")
          [] req.tool = "get_customer_details" ->
                IF data.kind = "error" THEN Err("No data found for customer")
                \* usage_data is a list of rows: usage_data.get raises AttributeError
                ELSE IF data.kind = "static_all" /\ data.rows # "empty" THEN Raised
                ELSE Ok("Customer Details")
          [] OTHER ->
                IF scores = << >> THEN Err("No data found for customer")
                ELSE Ok("Recommendations")

SyncResponse(name, res) ==
    [tool |-> name, res |-> res, late |-> FALSE, started |-> NoSelection,
     used |-> NoSelection, summary |-> NoSelection, count |-> 0]

\* what handle_call_tool returns for the request req when its handler resumes in
\* orchestrator state o
FinishResponse(req, o, e) ==
    LET out == TryExcept(TryExcept([o |-> o, res |-> FinishBody(req)], ExceptText(req.tool)),
                         "Critical error executing tool")
    IN  [tool |-> req.tool, res |-> out.res, late |-> req.late, started |-> req.started,
         used |-> req.task.data.from,
         summary |-> IF req.tool = "analyze_customer_health" /\ out.res.payload = "success"
                     THEN GetDataSourcesSummary(o, e) ELSE NoSelection,
         count |-> Len(req.task.scores)]

InitServer ==
    /\ pc = "serving"
    /\ ScoringIdle
    /\ env \in Environments
    /\ orchestrator = NewOrchestrator(env)
    /\ store = NoStore
    /\ request = NoRequest
    /\ response = NoResponse
    /\ served = 0

\* a request for a tool that answers without suspending (or for no tool at all)
CallSynchronousTool ==
    /\ pc = "serving"
    /\ served < MaxRequests
    /\ served' = served + 1
    /\ \E name \in RequestNames \ DeadlineTools :
       \E arguments \in ArgumentsFor(name), mode \in StoreModes :
          LET out == HandleCallTool(name, arguments, orchestrator, env, mode)
          IN  /\ orchestrator' = out.o
              /\ response' = SyncResponse(name, out.res)
    /\ UNCHANGED <<env, store, request, pc>>
    /\ UNCHANGED scoringVars

\* a request for one of the three tools that await asyncio.wait_for: the handler
\* validates, schedules the coroutine as a task and suspends
CallDeadlineTool ==
    /\ pc = "serving"
    /\ request.stage = "idle"
    /\ served < MaxRequests
    /\ served' = served + 1
    /\ \E name \in DeadlineTools : \E arguments \in ArgumentsFor(name) :
          IF ~arguments.is_dict
          THEN /\ response' = SyncResponse(name, Err("Arguments must be a dictionary"))
               /\ UNCHANGED request
          ELSE IF name # "analyze_customer_health" /\ arguments.customer_id = "missing"
          THEN /\ response' = SyncResponse(name, Err("customer_id parameter is required"))
               /\ UNCHANGED request
          ELSE /\ request' = [stage |-> "scheduled", tool |-> name,
                              customer_id |-> arguments.customer_id,
                              format |-> IF name = "analyze_customer_health"
                                         THEN arguments.format ELSE "missing",
                              started |-> Selection(orchestrator),
                              source |-> EffectiveSource(orchestrator),
                              task |-> NoTask, late |-> FALSE]
               /\ UNCHANGED response
    /\ UNCHANGED <<orchestrator, env, store, pc>>
    /\ UNCHANGED scoringVars

\* the event loop runs the task: the coroutine has no suspension point of its own
\* (every store call in it is synchronous), so it runs to its end in one step,
\* however long that takes
RunScheduledTask ==
    /\ pc = "serving"
    /\ request.stage = "scheduled"
    /\ \E mode \in StoreModes :
          request' = [request EXCEPT !.stage = "finished",
                                     !.task = RunTask(request, orchestrator, env, mode)]
    /\ UNCHANGED <<orchestrator, env, store, response, served, pc>>
    /\ UNCHANGED scoringVars

\* the deadline of wait_for (120 s, 60 s) passes before the collection is complete.
\* The timer callback that would wake the handler is queued behind the task's step,
\* and the step does not give the loop back before the coroutine has returned.
DeadlinePasses ==
    /\ pc = "serving"
    /\ request.stage = "scheduled"
    /\ ~request.late
    /\ request' = [request EXCEPT !.late = TRUE]
    /\ UNCHANGED <<orchestrator, env, store, response, served, pc>>
    /\ UNCHANGED scoringVars

\* the handler is woken and returns its text
ResumeHandler ==
    /\ pc = "serving"
    /\ request.stage = "finished"
    /\ response' = FinishResponse(request, orchestrator, env)
    /\ request' = NoRequest
    /\ UNCHANGED <<orchestrator, env, store, served, pc>>
    /\ UNCHANGED scoringVars

NextServer ==
    \/ CallSynchronousTool
    \/ CallDeadlineTool
    \/ RunScheduledTask
    \/ DeadlinePasses
    \/ ResumeHandler

SpecServer == InitServer /\ [][NextServer]_vars

----------------------------------------------------------------------------
(* AIRecommendationTool._run.  The language model's answer is text; a line *)
(* of it is held as the parts that line.split('|') yields, each part by    *)
(* the label it contains ("ACTION", "PRIORITY", "TIMELINE", "REASONING" or *)
(* "none") and the text after the label.                                   *)

\* health_scores, on both sides of the thresholds 60 and 80 the rules test
HealthScoreDicts ==
    [usage_score : {0, 59, 60, 80}, relationship_score : {0, 59, 60, 80},
     support_score : {59, 60}, overall_score : {79, 80}]

Part(label, value) == [label |-> label, value |-> value]

\* the sampled lines: the format asked for, prose, an ACTION without bars, a
\* line cut after TIMELINE, and a line with its labels out of place
AnswerLines ==
    { << Part("ACTION", "call the customer"), Part("PRIORITY", "high"),
         Part("TIMELINE", "this week"), Part("REASONING", "low usage") >>,
      << Part("none", "Here are my recommendations") >>,
      << Part("ACTION", "call the customer") >>,
      << Part("ACTION", "call"), Part("PRIORITY", "high"), Part("TIMELINE", "now") >>,
      << Part("PRIORITY", "high"), Part("ACTION", "call"), Part("TIMELINE", "now"),
         Part("REASONING", "why") >> }

MaxAnswerLines == 2

\* what client.chat.completions.create does: it raises, or it returns a message
\* whose content is a text or None
Completions ==
    {[kind |-> "raises", content |-> << >>], [kind |-> "none", content |-> << >>]}
    \cup {[kind |-> "text", content |-> a] :
              a \in UNION { [1..n -> AnswerLines] : n \in 0..MaxAnswerLines }}

\* the body of the loop over lines: what it appends to recommendations, nothing
\* when the line is not taken or the inner try catches an IndexError
ParseLine(line) ==
    IF ~(Len(line) >= 2 /\ \E i \in 1..Len(line) : line[i].label = "ACTION")
    THEN << >>
    ELSE IF Len(line) < 4 THEN << >>
    ELSE IF /\ line[1].label = "ACTION"
            /\ line[2].label = "PRIORITY"
            /\ line[3].label = "TIMELINE"
            /\ line[4].label = "REASONING"
         THEN << [action |-> line[1].value, priority |-> line[2].value,
                  timeline |-> line[3].value, reasoning |-> line[4].value] >>
         ELSE << >>

RECURSIVE ParseContent(_)
ParseContent(content) ==
    IF content = << >> THEN << >>
    ELSE ParseLine(Head(content)) \o ParseContent(Tail(content))

FallbackRec(action, priority, timeline) ==
    [action |-> action, priority |-> priority, timeline |-> timeline,
     reasoning |-> "rule"]

\* _generate_fallback_recommendations
GenerateFallbackRecommendations(health_scores) ==
    LET specific ==
            (IF health_scores.usage_score < 60
             THEN << FallbackRec("Schedule product training", "high", "Within 1 week") >>
             ELSE << >>)
            \o (IF health_scores.relationship_score < 60
                THEN << FallbackRec("Increase CSM touchpoints", "high", "Within 3 days") >>
                ELSE << >>)
            \o (IF health_scores.support_score < 60
                THEN << FallbackRec("Review open support tickets", "critical",
                                    "Within 24 hours") >>
                ELSE << >>)
        general ==
            IF Len(specific) < 3
            THEN IF health_scores.overall_score >= 80
                 THEN << FallbackRec("Explore upsell opportunities", "medium",
                                     "Within 2 weeks") >>
                 ELSE << FallbackRec("Conduct comprehensive account review", "medium",
                                     "Within 1 week") >>
            ELSE << >>
        all == specific \o general
    IN  SubSeq(all, 1, Min(3, Len(all)))

\* the dictionary _run returns: its keys, and the values of the keys it has
AIRecommendationToolResult(health_scores, api_key, completion) ==
    IF ~api_key
    THEN [keys |-> {"error"}, recommendations |-> << >>,
          error |-> "OpenAI API key not configured"]
    ELSE IF completion.kind \in {"raises", "none"}
    THEN [keys |-> {"recommendations", "error"},
          recommendations |-> GenerateFallbackRecommendations(health_scores),
          error |-> "AI recommendation error"]
    ELSE LET parsed == ParseContent(completion.content)
             recommendations ==
                 IF parsed = << >> THEN GenerateFallbackRecommendations(health_scores)
                 ELSE parsed
         IN  [keys |-> {"recommendations", "ai_response"},
              recommendations |-> SubSeq(recommendations, 1, Min(3, Len(recommendations))),
              error |-> "none"]

InitRecommend ==
    /\ pc = "recommending"
    /\ ScoringIdle
    /\ orchestrator = NoOrchestrator
    /\ served = 0
    /\ env \in [OPENAI_API_KEY : BOOLEAN]
    /\ store \in Completions
    /\ request \in [stage : {"idle"}, health_scores : HealthScoreDicts]
    /\ response = NoResponse

AIRecommendationToolRun ==
    /\ pc = "recommending"
    /\ request.stage = "idle"
    /\ request' = [request EXCEPT !.stage = "finished"]
    /\ response' = AIRecommendationToolResult(request.health_scores, env.OPENAI_API_KEY, store)
    /\ UNCHANGED <<pc, env, store, orchestrator, served, scoringVars>>

NextRecommend == AIRecommendationToolRun

SpecRecommend == InitRecommend /\ [][NextRecommend]_vars

----------------------------------------------------------------------------
(* 'analyze all': the loops of _create_airtable_customer_scores and        *)
(* _create_all_customer_scores, one iteration per step.  The component     *)
(* scorers catch their own exceptions; what can raise inside the loop is   *)
(* the CustomerHealthScore constructor, whose customer_id and company_name *)
(* are validated as str: an Airtable linked-record field is a list, the    *)
(* company_name of an empty CSV cell is NaN.  Customers are numbered in    *)
(* the order of the batch.                                                 *)

MaxBatch == 3

BatchCustomers == [company_name : {"str", "other"}, sample : {1, 2}]

Batches == UNION { [1..n -> BatchCustomers] : n \in 1..MaxBatch }

\* the scores of the loop body for customer number i of the batch
BatchHealthScore(scored_path, customer, i) ==
    [customer_id |-> i,
     score |-> IF scored_path = "airtable_all"
               THEN DictHealthScore(AirtableCustomerRecord)
               ELSE FrameHealthScore(StaticFramesOfAll[customer.sample])]

\* CustomerHealthScore(...) accepts the customer
Constructible(customer) == customer.company_name = "str"

InitBatch ==
    /\ pc = "batch"
    /\ ScoringIdle
    /\ orchestrator = NoOrchestrator
    /\ env = NoEnv
    /\ served = 0
    /\ store \in [kind : {"airtable_all", "static_all"}, customers : Batches]
    /\ request = [stage |-> "looping", next |-> 1, health_scores |-> << >>]
    /\ response = NoResponse

\* one iteration that reaches health_scores.append
AppendHealthScore ==
    /\ pc = "batch"
    /\ request.stage = "looping"
    /\ request.next <= Len(store.customers)
    /\ Constructible(store.customers[request.next])
    /\ request' = [request EXCEPT
                     !.next = @ + 1,
                     !.health_scores =
                         Append(@, BatchHealthScore(store.kind, store.customers[request.next],
                                                    request.next))]
    /\ UNCHANGED <<pc, env, store, response, orchestrator, served, scoringVars>>

\* an iteration in which the constructor raises: the except clause around the
\* loop returns []
ConstructorRaises ==
    /\ pc = "batch"
    /\ request.stage = "looping"
    /\ request.next <= Len(store.customers)
    /\ ~Constructible(store.customers[request.next])
    /\ request' = [request EXCEPT !.stage = "finished"]
    /\ response' = [kind |-> "health_scores", health_scores |-> << >>]
    /\ UNCHANGED <<pc, env, store, orchestrator, served, scoringVars>>

\* the loop is over: return health_scores
ReturnHealthScores ==
    /\ pc = "batch"
    /\ request.stage = "looping"
    /\ request.next > Len(store.customers)
    /\ request' = [request EXCEPT !.stage = "finished"]
    /\ response' = [kind |-> "health_scores", health_scores |-> request.health_scores]
    /\ UNCHANGED <<pc, env, store, orchestrator, served, scoringVars>>

NextBatch ==
    \/ AppendHealthScore
    \/ ConstructorRaises
    \/ ReturnHealthScores

SpecBatch == InitBatch /\ [][NextBatch]_vars

----------------------------------------------------------------------------
(* AirtableTool._discover_best_table, one table of table_names per step,   *)
(* and its two callers.  A table is what base.table(name).all(...) does    *)
(* for it (raises, or returns the sample records) and the field mapping    *)
(* _discover_schema finds.  A sample record is held as the number of its   *)
(* string fields that contain the target email.                            *)

MappedKeys ==
    {"email", "name", "customer_id", "company", "phone", "account_value", "customer_type"}

\* _score_table_for_customers; field_mapping is the set of keys that are bound
ScoreTableForCustomers(field_mapping, sample_records, target_email) ==
    LET points(key, n) == IF key \in field_mapping THEN n ELSE 0
        fields == points("email", 40) + points("name", 20) + points("customer_id", 15)
                  + points("company", 5) + points("phone", 5)
                  + points("account_value", 10) + points("customer_type", 5)
        \* the break leaves the loop over one record's fields: 20 per record
        bonus == IF target_email # "" /\ sample_records # << >>
                 THEN 20 * Cardinality({i \in 1..Len(sample_records) : sample_records[i] > 0})
                 ELSE 0
        penalty == IF Len(sample_records) < 3 THEN 10 ELSE 0
    IN  Max(0, Min(100, fields + bonus - penalty))

CandidateTable(access, field_mapping, sample_records) ==
    [access |-> access, field_mapping |-> field_mapping, sample_records |-> sample_records]

\* the sampled tables: one that cannot be read, an empty one, tables that score
\* 0, tables that score above 0, two of them 40, and a table in which two
\* records hold the target email
CandidateTables ==
    { CandidateTable("raises", {}, << >>),
      CandidateTable("ok", {}, << >>),
      CandidateTable("ok", {}, <<0, 0, 0>>),
      CandidateTable("ok", {"phone"}, <<0>>),
      CandidateTable("ok", {"name"}, <<0, 1>>),
      CandidateTable("ok", {"email"}, <<0, 0, 0>>),
      CandidateTable("ok", {"name", "customer_id", "company"}, <<0, 2, 0>>),
      CandidateTable("ok", {"email", "name"}, <<1>>),
      CandidateTable("ok", {"customer_id"}, <<1, 0, 1>>) }

MaxTables == 3

TableLists == UNION { [1..n -> CandidateTables] : n \in 0..MaxTables }

TargetEmails == {"", "ann@example.com"}

Discoverers == {"_collect_airtable_data", "_run"}

\* best_score started below 0 instead of at 0
NoBestTableBelowZero == [best_table |-> 0, best_score |-> -1, best_field_mapping |-> {}]

\* best_table is the position of the table in table_names, 0 for None
NoBestTable == [best_table |-> 0, best_score |-> 0, best_field_mapping |-> {}]

\* the loop body with >= for >: a table that equals the best score replaces it
AnalyzeTableLastWins(best, table, position, target_email) ==
    IF table.access = "raises" \/ table.sample_records = << >> THEN best
    ELSE LET score == ScoreTableForCustomers(table.field_mapping, table.sample_records,
                                             target_email)
         IN  IF score >= best.best_score /\ score > 0
             THEN [best_table |-> position, best_score |-> score,
                   best_field_mapping |-> table.field_mapping]
             ELSE best

\* the body of the loop over table_names
AnalyzeTable(best, table, position, target_email) ==
    IF table.access = "raises" \/ table.sample_records = << >> THEN best
    ELSE LET score == ScoreTableForCustomers(table.field_mapping, table.sample_records,
                                             target_email)
         IN  IF score > best.best_score
             THEN [best_table |-> position, best_score |-> score,
                   best_field_mapping |-> table.field_mapping]
             ELSE best

InitDiscover ==
    /\ pc = "discovering"
    /\ ScoringIdle
    /\ orchestrator = NoOrchestrator
    /\ env = NoEnv
    /\ served = 0
    /\ store \in [kind : {"base"}, tables : TableLists]
    /\ \E caller \in Discoverers, target \in TargetEmails :
          \* _collect_airtable_data passes "" as customer_email
          /\ caller = "_collect_airtable_data" => target = ""
          /\ request = [stage |-> "looping", caller |-> caller, customer_email |-> target,
                        next |-> 1, best |-> NoBestTable]
    /\ response = NoResponse

\* one iteration of the loop over table_names
AnalyzeNextTable ==
    /\ pc = "discovering"
    /\ request.stage = "looping"
    /\ request.next <= Len(store.tables)
    /\ request' = [request EXCEPT
                     !.next = @ + 1,
                     !.best = AnalyzeTable(@, store.tables[request.next], request.next,
                                           request.customer_email)]
    /\ UNCHANGED <<pc, env, store, response, orchestrator, served, scoringVars>>

\* the loop is over: _discover_best_table returns best_table, or None
ReturnBestTable ==
    /\ pc = "discovering"
    /\ request.stage = "looping"
    /\ request.next > Len(store.tables)
    /\ request' = [request EXCEPT !.stage = "returned"]
    /\ UNCHANGED <<pc, env, store, response, orchestrator, served, scoringVars>>

\* the caller tests `if not customers_table` and returns its error dictionary,
\* or goes on with the table
CallerUsesTable ==
    /\ pc = "discovering"
    /\ request.stage = "returned"
    /\ request' = [request EXCEPT !.stage = "finished"]
    /\ response' =
          IF request.best.best_table = 0
          THEN [kind |-> "error", table |-> 0,
                text |-> IF request.caller = "_run"
                         THEN "Could not find any accessible table with customer data"
                         ELSE "Could not find any accessible customer table in Airtable"]
          ELSE [kind |-> "table", table |-> request.best.best_table, text |-> "none"]
    /\ UNCHANGED <<pc, env, store, orchestrator, served, scoringVars>>

NextDiscover ==
    \/ AnalyzeNextTable
    \/ ReturnBestTable
    \/ CallerUsesTable

SpecDiscover == InitDiscover /\ [][NextDiscover]_vars

----------------------------------------------------------------------------
(* AirtableTool._discover_schema and _find_field_by_patterns.  A column    *)
(* name is the sequence of its characters, so that lower() and the `in`    *)
(* test of one string in another are computed.  all_fields is a Python     *)
(* set: the order in which it is iterated is not fixed by its elements     *)
(* (string hashing is seeded per process), and the model takes it as any   *)
(* order of the columns.                                                   *)

UpperCase ==
    << "A", "B", "C", "D", "E", "F", "G", "H", "I", "J", "K", "L", "M",
       "N", "O", "P", "Q", "R", "S", "T", "U", "V", "W", "X", "Y", "Z" >>

LowerCase ==
    << "a", "b", "c", "d", "e", "f", "g", "h", "i", "j", "k", "l", "m",
       "n", "o", "p", "q", "r", "s", "t", "u", "v", "w", "x", "y", "z" >>

\* str.lower()
Lower(s) ==
    [i \in 1..Len(s) |->
        IF \E k \in 1..Len(UpperCase) : UpperCase[k] = s[i]
        THEN LowerCase[CHOOSE k \in 1..Len(UpperCase) : UpperCase[k] = s[i]]
        ELSE s[i]]

\* sub in s, for strings
Contains(sub, s) ==
    \E k \in 0..(Len(s) - Len(sub)) : SubSeq(s, k + 1, k + Len(sub)) = sub

\* the patterns _discover_schema passes for the key "email"
EmailPatterns ==
    << <<"e", "m", "a", "i", "l", "_", "a", "d", "d", "r", "e", "s", "s">>,
       <<"e", "m", "a", "i", "l">>,
       <<"e", "-", "m", "a", "i", "l">>,
       <<"e", "_", "m", "a", "i", "l">>,
       <<"c", "o", "n", "t", "a", "c", "t", "_", "e", "m", "a", "i", "l">>,
       <<"c", "u", "s", "t", "o", "m", "e", "r", "_", "e", "m", "a", "i", "l">>,
       <<"u", "s", "e", "r", "_", "e", "m", "a", "i", "l">>,
       <<"p", "r", "i", "m", "a", "r", "y", "_", "e", "m", "a", "i", "l">> >>

\* the column "Email Address"
EmailAddressColumn == <<"E", "m", "a", "i", "l", " ", "A", "d", "d", "r", "e", "s", "s">>

\* the sampled column names: "Email Address", "Email", "Contact Email",
\* "E-mail", "Full Name", "Phone"
ColumnNames ==
    { <<"E", "m", "a", "i", "l", " ", "A", "d", "d", "r", "e", "s", "s">>,
      <<"E", "m", "a", "i", "l">>,
      <<"C", "o", "n", "t", "a", "c", "t", " ", "E", "m", "a", "i", "l">>,
      <<"E", "-", "m", "a", "i", "l">>,
      <<"F", "u", "l", "l", " ", "N", "a", "m", "e">>,
      <<"P", "h", "o", "n", "e">> }

MaxColumns == 3

\* all_fields in an order of iteration
FieldOrders ==
    { order \in UNION { [1..n -> ColumnNames] : n \in 1..MaxColumns } :
        \A i, j \in 1..Len(order) : i # j => order[i] # order[j] }

\* None
NoField == << >>

\* the substring pass tried before the exact pass
FindFieldByPatternsPartialFirst(field_names, patterns) ==
    LET exact(p, i) == Lower(field_names[i]) = Lower(patterns[p])
        partial(p, i) == Contains(Lower(patterns[p]), Lower(field_names[i]))
        first(P(_, _)) ==
            LET p == CHOOSE q \in 1..Len(patterns) :
                        /\ \E i \in 1..Len(field_names) : P(q, i)
                        /\ \A r \in 1..(q - 1) : \A i \in 1..Len(field_names) : ~P(r, i)
                i == CHOOSE k \in 1..Len(field_names) :
                        P(p, k) /\ \A l \in 1..(k - 1) : ~P(p, l)
            IN  field_names[i]
        some(P(_, _)) == \E p \in 1..Len(patterns) : \E i \in 1..Len(field_names) : P(p, i)
    IN  IF some(partial) THEN first(partial)
        ELSE IF some(exact) THEN first(exact)
        ELSE NoField

\* _find_field_by_patterns; field_names is the set in its order of iteration
FindFieldByPatterns(field_names, patterns) ==
    LET exact(p, i) == Lower(field_names[i]) = Lower(patterns[p])
        partial(p, i) == Contains(Lower(patterns[p]), Lower(field_names[i]))
        first(P(_, _)) ==
            LET p == CHOOSE q \in 1..Len(patterns) :
                        /\ \E i \in 1..Len(field_names) : P(q, i)
                        /\ \A r \in 1..(q - 1) : \A i \in 1..Len(field_names) : ~P(r, i)
                i == CHOOSE k \in 1..Len(field_names) :
                        P(p, k) /\ \A l \in 1..(k - 1) : ~P(p, l)
            IN  field_names[i]
        some(P(_, _)) == \E p \in 1..Len(patterns) : \E i \in 1..Len(field_names) : P(p, i)
    IN  IF some(exact) THEN first(exact)
        ELSE IF some(partial) THEN first(partial)
        ELSE NoField

\* _discover_schema, the binding of the key "email"
DiscoverSchema(all_fields) ==
    [email |-> FindFieldByPatterns(all_fields, EmailPatterns)]

InitSchema ==
    /\ pc = "schema"
    /\ ScoringIdle
    /\ orchestrator = NoOrchestrator
    /\ env = NoEnv
    /\ served = 0
    /\ store \in [kind : {"table"}, all_fields : FieldOrders]
    /\ request = [stage |-> "sampled"]
    /\ response = NoResponse

DiscoverSchemaRun ==
    /\ pc = "schema"
    /\ request.stage = "sampled"
    /\ request' = [stage |-> "finished"]
    /\ response' = [kind |-> "field_mapping", field_mapping |-> DiscoverSchema(store.all_fields)]
    /\ UNCHANGED <<pc, env, store, orchestrator, served, scoringVars>>

NextSchema == DiscoverSchemaRun

SpecSchema == InitSchema /\ [][NextSchema]_vars

----------------------------------------------------------------------------
(* Synthesis of a customer record from one Airtable row: AirtableTool._run *)
(* and the two branches of _collect_airtable_data.  A cell is absent, a    *)
(* number, a string (its characters), a string holding an ISO date (the    *)
(* day it names) or a computed field, an object whose 'value' is a number. *)
(* field_mapping is the set of keys bound to a column; the row is held by  *)
(* the keys its columns are bound to.                                      *)

Cell(type, num, text) == [type |-> type, num |-> num, text |-> text]

AbsentCell == Cell("absent", 0, << >>)

\* account_value cells: missing, 0, 5000, {'value': 5000}, '', '5000', '$5k'
AccountValueCells ==
    { AbsentCell, Cell("number", 0, << >>), Cell("number", 5000, << >>),
      Cell("computed", 5000, << >>), Cell("str", 0, << >>),
      Cell("str", 0, <<"5", "0", "0", "0">>), Cell("str", 0, <<"$", "5", "k">>) }

CustomerIdCells == { AbsentCell, Cell("str", 0, <<"C", "7">>) }

\* last_contact cells: missing, the date of day 10, a text that is no date
LastContactCells ==
    { AbsentCell, Cell("date", 10, << >>), Cell("str", 0, <<"s", "o", "o", "n">>) }

RawRows ==
    [customer_id : CustomerIdCells, account_value : AccountValueCells,
     last_contact : LastContactCells]

FieldMappings == SUBSET {"customer_id", "account_value", "last_contact"}

\* bool(value)
Truthy(cell) ==
    CASE cell.type = "absent" -> FALSE
      [] cell.type = "number" -> cell.num # 0
      [] cell.type = "str" -> cell.text # << >>
      [] OTHER -> TRUE

\* _extract_field_value
ExtractFieldValue(fields, field_mapping, key) ==
    IF key \notin field_mapping THEN AbsentCell
    ELSE IF fields[key].type = "computed" THEN Cell("number", fields[key].num, << >>)
    ELSE fields[key]

DigitChars == <<"0", "1", "2", "3", "4", "5", "6", "7", "8", "9">>

IsDigit(c) == \E d \in 1..Len(DigitChars) : DigitChars[d] = c

DigitValue(c) == (CHOOSE d \in 1..Len(DigitChars) : DigitChars[d] = c) - 1

RECURSIVE DecimalValue(_)
DecimalValue(text) ==
    IF text = << >> THEN 0
    ELSE 10 * DecimalValue(SubSeq(text, 1, Len(text) - 1)) + DigitValue(text[Len(text)])

\* float(value) for the sampled cells: [raised, value]
Float(cell) ==
    CASE cell.type = "number" -> [raised |-> FALSE, value |-> cell.num]
      [] cell.type = "str" /\ cell.text # << >>
            /\ (\A i \in 1..Len(cell.text) : IsDigit(cell.text[i])) ->
            [raised |-> FALSE, value |-> DecimalValue(cell.text)]
      [] OTHER -> [raised |-> TRUE, value |-> 0]

\* account_value = _extract_field_value(...) or 0
\* float(account_value) if account_value else 0
AccountValueOf(fields, field_mapping) ==
    LET account_value == ExtractFieldValue(fields, field_mapping, "account_value")
    IN  IF Truthy(account_value) THEN Float(account_value)
        ELSE [raised |-> FALSE, value |-> 0]

\* f"CUST{n:03d}"
GeneratedCustomerId(n) == <<"C", "U", "S", "T", "0", "0", DigitChars[n + 1]>>

NoCustomerId == << >>

SynthesisError(text) ==
    [status |-> "error", text |-> text, customer_id |-> NoCustomerId, account_value |-> 0,
     contract_value |-> 0, days_since_last_purchase |-> 0]

CanonicalRecord(customer_id, account_value, days) ==
    [status |-> "record", text |-> "none", customer_id |-> customer_id,
     account_value |-> account_value, contract_value |-> account_value,
     days_since_last_purchase |-> days]

\* AirtableTool._run from `customer = records[0]` on, on day now
SynthesizeInRun(fields, field_mapping, now) ==
    LET account_value == AccountValueOf(fields, field_mapping)
        last_contact_date == ExtractFieldValue(fields, field_mapping, "last_contact")
        \* strptime succeeds on a date only; (datetime.now() - last_date).days
        days == IF last_contact_date.type = "date" THEN now - last_contact_date.num ELSE 0
    IN  IF account_value.raised THEN SynthesisError("Airtable API error")
        ELSE CanonicalRecord(NoCustomerId, account_value.value, days)

\* the body of the loop of _collect_airtable_data('all') for a row that has
\* `before` rows before it
SynthesizeInAll(fields, field_mapping, before) ==
    LET account_value == AccountValueOf(fields, field_mapping)
        cell == ExtractFieldValue(fields, field_mapping, "customer_id")
        customer_id == IF Truthy(cell) THEN cell.text ELSE GeneratedCustomerId(before + 1)
    IN  IF account_value.raised THEN SynthesisError("Airtable data collection failed")
        ELSE CanonicalRecord(customer_id, account_value.value, 0)

\* the single-customer branch of _collect_airtable_data
SynthesizeInSingle(fields, field_mapping) ==
    LET account_value == AccountValueOf(fields, field_mapping)
    IN  IF account_value.raised THEN SynthesisError("Airtable data collection failed")
        ELSE CanonicalRecord(NoCustomerId, account_value.value, 0)

MaxSyntheses == 2

MaxRowsBefore == 1

\* the day of the first call, as datetime.now() gives it
Today == 20

InitSynthesis ==
    /\ pc = "synthesizing"
    /\ ScoringIdle
    /\ orchestrator = NoOrchestrator
    /\ env = NoEnv
    /\ served = 0
    /\ store \in [kind : {"row"}, fields : RawRows, field_mapping : FieldMappings]
    /\ request = [stage |-> "idle", calls |-> << >>]
    /\ response = NoResponse

Synthesized(synthesizer, now, before, record) ==
    /\ pc = "synthesizing"
    /\ Len(request.calls) < MaxSyntheses
    /\ request' = [stage |-> "synthesized",
                   calls |-> Append(request.calls,
                                    [synthesizer |-> synthesizer, now |-> now,
                                     before |-> before, record |-> record])]
    /\ response' = [kind |-> "record", record |-> record]
    /\ UNCHANGED <<pc, env, store, orchestrator, served, scoringVars>>

AirtableToolRunSynthesizes ==
    \E now \in {Today, Today + 1} :
        Synthesized("_run", now, 0, SynthesizeInRun(store.fields, store.field_mapping, now))

CollectAllSynthesizes ==
    \E before \in 0..MaxRowsBefore :
        Synthesized("all", Today, before,
                    SynthesizeInAll(store.fields, store.field_mapping, before))

CollectSingleSynthesizes ==
    Synthesized("single", Today, 0, SynthesizeInSingle(store.fields, store.field_mapping))

NextSynthesis ==
    \/ AirtableToolRunSynthesizes
    \/ CollectAllSynthesizes
    \/ CollectSingleSynthesizes

SpecSynthesis == InitSynthesis /\ [][NextSynthesis]_vars

----------------------------------------------------------------------------
(* AirtableDiscoveryTool._score_table_for_customer_data: the confidence    *)
(* that a table of the discovered schema holds customers.  Table and field *)
(* names are character sequences, as in _discover_schema.                  *)

CustomerKeywords ==
    { <<"c", "u", "s", "t", "o", "m", "e", "r">>,
      <<"c", "l", "i", "e", "n", "t">>,
      <<"c", "o", "n", "t", "a", "c", "t">>,
      <<"a", "c", "c", "o", "u", "n", "t">>,
      <<"u", "s", "e", "r">>,
      <<"m", "e", "m", "b", "e", "r">>,
      <<"l", "e", "a", "d">>,
      <<"p", "r", "o", "s", "p", "e", "c", "t">>,
      <<"p", "e", "o", "p", "l", "e">>,
      <<"p", "e", "r", "s", "o", "n">> }

EmailKeywords == { <<"e", "m", "a", "i", "l">>, <<"e", "-", "m", "a", "i", "l">> }

NameKeywords == { <<"n", "a", "m", "e">>,
                  <<"f", "i", "r", "s", "t">>,
                  <<"l", "a", "s", "t">>,
                  <<"f", "u", "l", "l">> }

CompanyKeywords ==
    { <<"c", "o", "m", "p", "a", "n", "y">>,
      <<"o", "r", "g", "a", "n", "i", "z", "a", "t", "i", "o", "n">>,
      <<"b", "u", "s", "i", "n", "e", "s", "s">> }

ValueKeywords ==
    { <<"v", "a", "l", "u", "e">>,
      <<"r", "e", "v", "e", "n", "u", "e">>,
      <<"a", "m", "o", "u", "n", "t">>,
      <<"p", "r", "i", "c", "e">> }

\* any(keyword in name.lower() for keyword in keywords)
AnyKeywordIn(keywords, name) == \E keyword \in keywords : Contains(keyword, Lower(name))

FieldInfo(name, field_type) == [name |-> name, field_type |-> field_type]

\* the sampled fields: Email (email), Work Email (text), Contact (email),
\* Full Name, Company, Notes, Account Value
FieldInfos ==
    { FieldInfo(<<"E", "m", "a", "i", "l">>, "email"),
      FieldInfo(<<"W", "o", "r", "k", " ", "E", "m", "a", "i", "l">>, "singleLineText"),
      FieldInfo(<<"C", "o", "n", "t", "a", "c", "t">>, "email"),
      FieldInfo(<<"F", "u", "l", "l", " ", "N", "a", "m", "e">>, "singleLineText"),
      FieldInfo(<<"C", "o", "m", "p", "a", "n", "y">>, "singleLineText"),
      FieldInfo(<<"N", "o", "t", "e", "s">>, "multilineText"),
      FieldInfo(<<"A", "c", "c", "o", "u", "n", "t", " ", "V", "a", "l", "u", "e">>, "currency") }

\* the sampled table names: Customers, Settings
TableNames ==
    { <<"C", "u", "s", "t", "o", "m", "e", "r", "s">>,
      <<"S", "e", "t", "t", "i", "n", "g", "s">> }

MaxFields == 3

\* the fields of a table, whose names are distinct
FieldLists ==
    { fields \in UNION { [1..n -> FieldInfos] : n \in 0..MaxFields } :
        \A i, j \in 1..Len(fields) : i # j => fields[i].name # fields[j].name }

IsEmailField(field) ==
    field.field_type = "email" \/ AnyKeywordIn(EmailKeywords, field.name)

\* the points the loop over table.fields adds for one field, the email points
\* given
FieldPoints(field, email_points) ==
    (IF IsEmailField(field) THEN email_points ELSE 0)
    + (IF AnyKeywordIn(NameKeywords, field.name) THEN 10 ELSE 0)
    + (IF AnyKeywordIn(CompanyKeywords, field.name) THEN 10 ELSE 0)
    + (IF AnyKeywordIn(ValueKeywords, field.name) THEN 5 ELSE 0)

RECURSIVE SumFieldPoints(_, _)
SumFieldPoints(fields, email_points) ==
    IF fields = << >> THEN 0
    ELSE FieldPoints(Head(fields), email_points) + SumFieldPoints(Tail(fields), email_points)

\* _score_table_for_customer_data
ScoreTableForCustomerData(table) ==
    LET keyword == IF AnyKeywordIn(CustomerKeywords, table.name) THEN 30 ELSE 0
        email_fields == Cardinality({i \in 1..Len(table.fields) : IsEmailField(table.fields[i])})
        name_fields ==
            Cardinality({i \in 1..Len(table.fields) :
                            AnyKeywordIn(NameKeywords, table.fields[i].name)})
        bonus == IF email_fields > 0 /\ name_fields > 0 THEN 20 ELSE 0
        penalty == IF Len(table.fields) < 3 THEN 20 ELSE 0
    IN  Max(0, Min(100, keyword + SumFieldPoints(table.fields, 25) + bonus - penalty))

InitConfidence ==
    /\ pc = "confidence"
    /\ ScoringIdle
    /\ orchestrator = NoOrchestrator
    /\ env = NoEnv
    /\ served = 0
    /\ store \in [kind : {"table_info"}, name : TableNames, fields : FieldLists]
    /\ request = [stage |-> "discovered"]
    /\ response = NoResponse

ScoreTableForCustomerDataRun ==
    /\ pc = "confidence"
    /\ request.stage = "discovered"
    /\ request' = [stage |-> "finished"]
    /\ response' = [kind |-> "score", score |-> ScoreTableForCustomerData(store)]
    /\ UNCHANGED <<pc, env, store, orchestrator, served, scoringVars>>

NextConfidence == ScoreTableForCustomerDataRun

SpecConfidence == InitConfidence /\ [][NextConfidence]_vars

----------------------------------------------------------------------------
(* The single-customer lookup of AirtableTool._run and of                  *)
(* _collect_airtable_data, one read per step.  The customers table is held *)
(* as what each formula-filtered read does (raises, returns no record,     *)
(* returns a record) and the position of the first row with a string cell  *)
(* that contains the identifier, 0 if there is none.                       *)

ReadOutcomes == {"raises", "empty", "match"}

\* table.all(max_records=100)
ScanLimit == 100

\* the strategies of each lookup, in order: the key a field must be bound to for
\* the formula to be tried, "" if the formula names its column itself
Strategies(caller) ==
    IF caller = "_run" THEN <<"email", "customer_id">>
    ELSE <<"", "", "", "">>

Lookups ==
    [caller : {"_run"}, field_mapping : SUBSET {"email", "customer_id"}]
    \cup [caller : {"_collect_airtable_data"}, field_mapping : {{}}]

InitLookup ==
    /\ pc = "lookup"
    /\ ScoringIdle
    /\ orchestrator = NoOrchestrator
    /\ env = NoEnv
    /\ served = 0
    /\ store \in [kind : {"customers_table"}, reads : [1..4 -> ReadOutcomes],
                  first_match : {0, 1, ScanLimit, ScanLimit + 1}]
    /\ \E lookup \in Lookups :
          request = [stage |-> "filtering", caller |-> lookup.caller,
                     field_mapping |-> lookup.field_mapping, strategy |-> 1,
                     found |-> "none"]
    /\ response = NoResponse

\* one formula-filtered read: a failing or empty read leaves records empty
FormulaRead ==
    /\ pc = "lookup"
    /\ request.stage = "filtering"
    /\ request.found = "none"
    /\ request.strategy <= Len(Strategies(request.caller))
    /\ LET key == Strategies(request.caller)[request.strategy]
           tried == key = "" \/ key \in request.field_mapping
       IN  request' = [request EXCEPT
                         !.strategy = @ + 1,
                         !.found = IF tried /\ store.reads[request.strategy] = "match"
                                   THEN "formula" ELSE "none"]
    /\ UNCHANGED <<pc, env, store, response, orchestrator, served, scoringVars>>

\* AirtableTool._run, `if not records` after the formulas: the scan of the first
\* 100 rows, then the record or the error
BroadSearch ==
    /\ pc = "lookup"
    /\ request.stage = "filtering"
    /\ request.caller = "_run"
    /\ request.found = "none"
    /\ request.strategy > Len(Strategies(request.caller))
    /\ LET found == IF store.first_match \in 1..ScanLimit THEN "scan" ELSE "none"
       IN  /\ request' = [request EXCEPT !.stage = "finished", !.found = found]
           /\ response' = IF found = "scan"
                          THEN [kind |-> "record", text |-> "none"]
                          ELSE [kind |-> "error", text |-> "No customer found"]
    /\ UNCHANGED <<pc, env, store, orchestrator, served, scoringVars>>

\* a formula found the record, or _collect_airtable_data has tried its four
\* formulas: `if not customer_record: return {"error": ...}`
ReturnLookup ==
    /\ pc = "lookup"
    /\ request.stage = "filtering"
    /\ \/ request.found = "formula"
       \/ /\ request.caller = "_collect_airtable_data"
          /\ request.strategy > Len(Strategies(request.caller))
    /\ request' = [request EXCEPT !.stage = "finished"]
    /\ response' = IF request.found = "formula"
                   THEN [kind |-> "record", text |-> "none"]
                   ELSE [kind |-> "error", text |-> "Customer not found in Airtable"]
    /\ UNCHANGED <<pc, env, store, orchestrator, served, scoringVars>>

NextLookup ==
    \/ FormulaRead
    \/ BroadSearch
    \/ ReturnLookup

SpecLookup == InitLookup /\ [][NextLookup]_vars

----------------------------------------------------------------------------
(* Finding the table names of a base: the metadata query and the probing   *)
(* of candidate names, in AirtableTool._discover_best_table /              *)
(* _probe_for_tables and in AirtableDiscoveryTool.discover_base_schema /   *)
(* _probe_for_tables, one call to the store per step.  request.calls is    *)
(* the sequence of calls made: "metadata", or the name probed.             *)

\* the head of potential_names and the generic name both lists hold
PotentialNames == <<"Customers", "Contacts", "Table 1">>

\* f"Table {i}" of the last-resort loop of AirtableTool._probe_for_tables
LastResortNames == <<"Table 1", "Table 2">>

ProbedTools == {"AirtableTool", "AirtableDiscoveryTool"}

\* what the metadata query does: it raises, or it returns the tables of the base
MetadataOutcomes ==
    { [kind |-> "raises", tables |-> << >>],
      [kind |-> "tables", tables |-> << >>],
      [kind |-> "tables", tables |-> <<"Orders", "Customers">>] }

\* the index of the next name after a probe that stops the loop on failure
AfterProbeStopsOnFailure(position, succeeded, count) ==
    IF succeeded THEN position + 1 ELSE count + 1

\* the index of the next name after a probe: the except clause is `continue`
AfterProbe(position, succeeded, count) == position + 1

InitProbe ==
    /\ pc = "probing"
    /\ ScoringIdle
    /\ orchestrator = NoOrchestrator
    /\ env = NoEnv
    /\ served = 0
    /\ store \in [kind : {"base"}, metadata : MetadataOutcomes,
                  readable : SUBSET {"Customers", "Contacts", "Table 1", "Table 2"}]
    /\ \E tool \in ProbedTools :
          request = [stage |-> "start", tool |-> tool, calls |-> << >>, next |-> 1,
                     discovered_tables |-> << >>]
    /\ response = NoResponse

\* base.get() / base.schema(): the table names, or the fall-back to probing.
\* AirtableTool probes when table_names is empty; discover_base_schema probes
\* in its except clause only.
QueryMetadata ==
    /\ pc = "probing"
    /\ request.stage = "start"
    /\ LET probes == \/ store.metadata.kind = "raises"
                     \/ request.tool = "AirtableTool" /\ store.metadata.tables = << >>
       IN  /\ request' = [request EXCEPT
                            !.calls = Append(@, "metadata"),
                            !.stage = IF probes THEN "potential_names" ELSE "finished"]
           /\ response' = IF probes THEN response
                          ELSE [kind |-> "table_names", table_names |-> store.metadata.tables]
    /\ UNCHANGED <<pc, env, store, orchestrator, served, scoringVars>>

\* one iteration of a probing loop: base.table(name).all(max_records=1)
ProbeTable ==
    /\ pc = "probing"
    /\ request.stage \in {"potential_names", "last_resort"}
    /\ LET names == IF request.stage = "potential_names" THEN PotentialNames
                    ELSE LastResortNames
       IN  /\ request.next <= Len(names)
           /\ LET table_name == names[request.next]
                  succeeded == table_name \in store.readable
              IN  request' = [request EXCEPT
                                !.calls = Append(@, table_name),
                                !.next = AfterProbe(@, succeeded, Len(names)),
                                !.discovered_tables =
                                    IF succeeded THEN Append(@, table_name) ELSE @]
    /\ UNCHANGED <<pc, env, store, response, orchestrator, served, scoringVars>>

\* AirtableTool._probe_for_tables, `if not discovered_tables` after the first loop
TryLastResort ==
    /\ pc = "probing"
    /\ request.stage = "potential_names"
    /\ request.next > Len(PotentialNames)
    /\ request.tool = "AirtableTool"
    /\ request.discovered_tables = << >>
    /\ request' = [request EXCEPT !.stage = "last_resort", !.next = 1]
    /\ UNCHANGED <<pc, env, store, response, orchestrator, served, scoringVars>>

\* return discovered_tables
ReturnDiscoveredTables ==
    /\ pc = "probing"
    /\ \/ /\ request.stage = "potential_names"
          /\ request.next > Len(PotentialNames)
          /\ request.tool = "AirtableDiscoveryTool" \/ request.discovered_tables # << >>
       \/ /\ request.stage = "last_resort"
          /\ request.next > Len(LastResortNames)
    /\ request' = [request EXCEPT !.stage = "finished"]
    /\ response' = [kind |-> "table_names", table_names |-> request.discovered_tables]
    /\ UNCHANGED <<pc, env, store, orchestrator, served, scoringVars>>

NextProbe ==
    \/ QueryMetadata
    \/ ProbeTable
    \/ TryLastResort
    \/ ReturnDiscoveredTables

SpecProbe == InitProbe /\ [][NextProbe]_vars

----------------------------------------------------------------------------
(* The data-source selection of one orchestrator: constructed from the     *)
(* environment, then switched by set_data_source and                       *)
(* connect_to_airtable_base in any order.                                  *)

\* USE_STATIC_DATA is read as its lowered text compared with "true" (34);
\* DEFAULT_DATA_SOURCE defaults to "static" when unset (38)
ConstructionEnvironments ==
    [AIRTABLE_API_KEY : BOOLEAN, AIRTABLE_BASE_ID : {"none", "appA"},
     HUBSPOT_API_KEY : BOOLEAN, ZAPIER_API_KEY : {FALSE},
     USE_STATIC_DATA : BOOLEAN, DEFAULT_DATA_SOURCE : {"static", "airtable"},
     pyairtable : {TRUE}]

\* the names a caller passes to set_data_source; "salesforce" is not a source
RequestedSources == DataSources \cup {"salesforce"}

InitDataSource ==
    /\ pc = "data_source"
    /\ ScoringIdle
    /\ env \in ConstructionEnvironments
    /\ orchestrator = NewOrchestrator(env)
    /\ store = NoStore
    /\ request = NoRequest
    /\ response = NoResponse
    /\ served = 0

\* orchestrator.set_data_source(data_source)
SetDataSourceCalled ==
    /\ pc = "data_source"
    /\ \E data_source \in RequestedSources :
          LET result == SetDataSource(orchestrator, env, data_source)
          IN  /\ orchestrator' = result.o
              /\ request' = [stage |-> "set_data_source"]
              /\ response' = [kind |-> IF result.success THEN "success" ELSE "error"]
    /\ UNCHANGED <<pc, env, store, served, scoringVars>>

\* orchestrator.connect_to_airtable_base(base_id)
ConnectToAirtableBaseCalled ==
    /\ pc = "data_source"
    /\ \E base_id \in BaseIds, mode \in StoreModes :
          LET result == ConnectToAirtableBase(orchestrator, env, base_id, mode)
          IN  /\ orchestrator' = result.o
              /\ request' = [stage |-> "connect_to_airtable_base"]
              /\ response' = [kind |-> IF result.success THEN "success" ELSE "error"]
    /\ UNCHANGED <<pc, env, store, served, scoringVars>>

NextDataSource ==
    \/ SetDataSourceCalled
    \/ ConnectToAirtableBaseCalled

SpecDataSource == InitDataSource /\ [][NextDataSource]_vars

----------------------------------------------------------------------------
(* The static source analysed both ways.  frames holds what the CSV files  *)
(* say about one customer_id; store holds the one aggregate only the       *)
(* single-customer collection reads, the number of that customer's tickets *)
(* of priority 'high'.  The customer is analysed alone                     *)
(* (_collect_static_data, then _create_single_customer_score) and as an    *)
(* entry of the 'all' analysis (_create_all_customer_scores), in either    *)
(* order.                                                                  *)

\* _collect_static_data for one customer_id, lines 344-408, as a function of
\* what the files hold about it
CollectStaticDataOf(f, files) ==
    [usage_data |->
        IF f.usage_df.kind = "absent" THEN EmptyBlock
        ELSE [kind |-> "full",
              total_logins |-> f.usage_df.total_logins,
              avg_session_duration |-> f.usage_df.avg_session_duration,
              features_used |-> f.usage_df.features_used,
              trend |-> "stable"],
     relationship_data |->
        IF f.relationship_df.kind = "absent" THEN EmptyBlock
        ELSE [kind |-> "full",
              last_contact_date |-> f.relationship_df.last_contact_date,
              engagement_score |-> 75,
              emails_responded |-> 3,
              meetings_attended |-> 1,
              contract_value |-> f.relationship_df.account_value,
              renewal_probability |-> 70],
     support_data |->
        IF f.support_df.kind = "absent" THEN EmptyBlock
        ELSE [kind |-> "full",
              open_tickets |-> f.support_df.open_tickets,
              avg_resolution_hours |-> f.support_df.avg_resolution_hours,
              satisfaction_score |-> 4,
              escalations |-> files.high_priority_tickets]]

InitStatic ==
    /\ pc = "static"
    /\ customer_data = NoRecord
    /\ frames \in StaticFrames
    /\ scores_in = NoScores
    /\ path = "none"
    /\ health_score = NoHealthScore
    /\ orchestrator = NoOrchestrator
    /\ env = NoEnv
    /\ store \in [kind : {"static_files"}, high_priority_tickets : 0 .. MaxEscalations]
    /\ frames.support_df.kind = "absent" => store.high_priority_tickets = 0
    /\ request = NoRequest
    /\ response = NoResponse
    /\ served = 0

\* analyze_customer_health(customer_id) on the static source
AnalyzeCustomerAlone ==
    /\ pc = "static"
    /\ path = "none"
    /\ customer_data' = CollectStaticDataOf(frames, store)
    /\ health_score' = DictHealthScore(customer_data')
    /\ path' = "single"
    /\ UNCHANGED <<pc, frames, scores_in, orchestrator, env, store, request, response, served>>

\* analyze_customer_health('all') on the static source: this customer's entry
AnalyzeAllCustomers ==
    /\ pc = "static"
    /\ response = NoResponse
    /\ response' = [kind |-> "health_scores", entry |-> FrameHealthScore(frames)]
    /\ UNCHANGED <<pc, customer_data, frames, scores_in, path, health_score,
                   orchestrator, env, store, request, served>>

NextStatic ==
    \/ AnalyzeCustomerAlone
    \/ AnalyzeAllCustomers

SpecStatic == InitStatic /\ [][NextStatic]_vars

----------------------------------------------------------------------------
(* Properties *)

Scored == pc = "done" /\ path \in {"single", "airtable_all", "static_all", "tool"}

RecordScored == pc = "done" /\ path \in {"single", "airtable_all", "tool"}

\* 10 * (0.4u + 0.3r + 0.3s) in exact arithmetic
WeightedTenths ==
    4 * health_score.usage_score + 3 * health_score.relationship_score
    + 3 * health_score.support_score

C2_StatusFromOverall ==
    Scored =>
        /\ health_score.health_status = "healthy" <=> health_score.overall_score >= 80
        /\ health_score.health_status = "at_risk" <=>
               (health_score.overall_score >= 60 /\ health_score.overall_score <= 79)
        /\ health_score.health_status = "critical" <=> health_score.overall_score < 60

\* an overall score of exactly 80, classified healthy
C2_Witness ==
    Scored /\ health_score.overall_score = 80 /\ health_score.health_status = "healthy"

\* C3 (as claimed): every health score of the orchestrator has its three component
\* scores in 0..100.
C3_ComponentScoresInRange ==
    (pc = "done" /\ path \in {"single", "airtable_all", "static_all"}) =>
        /\ health_score.usage_score \in 0 .. 100
        /\ health_score.relationship_score \in 0 .. 100
        /\ health_score.support_score \in 0 .. 100

UsageRecs == {"usage_training", "usage_guides"}

RelationshipRecs == {"relationship_checkin", "relationship_qbr"}

SupportRecs == {"support_tickets", "support_review"}

StatusRecs == {"status_intervention", "status_action_plan", "status_expansion"}

\* position of a recommendation's rule in the fixed rule order
RuleRank(rec) ==
    IF rec \in UsageRecs THEN 1
    ELSE IF rec \in RelationshipRecs THEN 2
    ELSE IF rec \in SupportRecs THEN 3
    ELSE 4

ThresholdRulesFired ==
    (IF scores_in.usage_score < 70 THEN 1 ELSE 0)
    + (IF scores_in.relationship_score < 70 THEN 1 ELSE 0)
    + (IF scores_in.support_score < 70 THEN 1 ELSE 0)

\* C4: _generate_recommendations returns at most 3 entries, in the rule order usage,
\* relationship, support, status; every threshold rule that fires keeps its entry, and
\* the status entry is there exactly when fewer than three threshold rules fired.
C4_RecommendationCapAndOrder ==
    (pc = "done" /\ path = "recommendations") =>
        LET recs == health_score.recommendations
            ranks == {RuleRank(recs[i]) : i \in 1 .. Len(recs)}
        IN  /\ Len(recs) <= 3
            /\ \A i, j \in 1 .. Len(recs) : i < j => RuleRank(recs[i]) < RuleRank(recs[j])
            /\ 1 \in ranks <=> scores_in.usage_score < 70
            /\ 2 \in ranks <=> scores_in.relationship_score < 70
            /\ 3 \in ranks <=> scores_in.support_score < 70
            /\ 4 \in ranks <=> ThresholdRulesFired < 3

\* all four rules fire and the status entry is the one cut
C4_Witness ==
    /\ pc = "done" /\ path = "recommendations"
    /\ ThresholdRulesFired = 3
    /\ Len(health_score.recommendations) = 3
    /\ \A i \in 1 .. 3 : health_score.recommendations[i] \notin StatusRecs

PerfectRecord ==
    [usage_data |-> StrongUsage, relationship_data |-> StrongRelationship,
     support_data |-> StrongSupport]

\* C5 (as claimed): the record with the best usage, relationship and support blocks is
\* scored 100 / 100 / 100, overall 100, healthy, and a scorer that recommends returns
\* the expansion recommendation alone.
C5_PerfectRecordScores100 ==
    (RecordScored /\ customer_data = PerfectRecord) =>
        /\ health_score.usage_score = 100
        /\ health_score.relationship_score = 100
        /\ health_score.support_score = 100
        /\ health_score.overall_score = 100
        /\ health_score.health_status = "healthy"
        /\ path # "tool" => health_score.recommendations = <<"status_expansion">>

\* C6: a record whose three blocks are all absent is scored usage 0, relationship 0,
\* support 100, overall 30, critical, by the orchestrator and by the tool.
C6_AbsentBlocksScore ==
    (RecordScored /\ customer_data = NoRecord) =>
        /\ health_score.usage_score = 0
        /\ health_score.relationship_score = 0
        /\ health_score.support_score = 100
        /\ health_score.overall_score = 30
        /\ health_score.health_status = "critical"

\* the orchestrator has scored the record without blocks
C6_Witness ==
    pc = "done" /\ path = "single" /\ customer_data = NoRecord

\* the tiered usage rubric of the specification
UsageRubric(usage) ==
    Min(100,
        (IF usage.total_logins >= 50 THEN 40
         ELSE IF usage.total_logins >= 25 THEN 30
         ELSE IF usage.total_logins >= 10 THEN 20 ELSE 10)
      + (IF usage.avg_session_duration >= 45 THEN 30
         ELSE IF usage.avg_session_duration >= 25 THEN 20
         ELSE IF usage.avg_session_duration >= 15 THEN 10 ELSE 0)
      + (IF usage.features_used >= 5 THEN 20
         ELSE IF usage.features_used >= 3 THEN 15
         ELSE IF usage.features_used >= 2 THEN 10 ELSE 0)
      + (IF usage.trend = "increasing" THEN 10
         ELSE IF usage.trend = "stable" THEN 5 ELSE 0))

\* C7 (as claimed): for every record with a usage block the usage score is the capped
\* sum of the login, session, feature and trend tiers.
C7_UsageScoreIsTiered ==
    (RecordScored /\ customer_data.usage_data.kind = "full") =>
        health_score.usage_score = UsageRubric(customer_data.usage_data)

\* the tiered relationship rubric of the specification
RelationshipRubric(rel) ==
    Min(100,
        (IF rel.last_contact_date.kind # "date" THEN 20
         ELSE IF rel.last_contact_date.days <= 7 THEN 40
         ELSE IF rel.last_contact_date.days <= 14 THEN 30
         ELSE IF rel.last_contact_date.days <= 30 THEN 20 ELSE 10)
      + (IF rel.engagement_score > 80 \/ (rel.emails_responded > 5 /\ rel.meetings_attended > 2)
         THEN 40
         ELSE IF rel.engagement_score > 60 \/ (rel.emails_responded > 3 /\ rel.meetings_attended > 1)
         THEN 30
         ELSE IF rel.engagement_score > 40 \/ rel.emails_responded > 1 THEN 20 ELSE 10)
      + (IF rel.contract_value > 100000 /\ rel.renewal_probability > 80 THEN 20
         ELSE IF rel.contract_value > 50000 /\ rel.renewal_probability > 60 THEN 15
         ELSE IF rel.renewal_probability > 40 THEN 10 ELSE 5))

\* C8 (as claimed): for every record with a relationship block the relationship score is
\* the capped sum of the contact-recency tier (20 for a missing or unparseable date), the
\* engagement tier and the contract-health tier.
C8_RelationshipScoreIsTiered ==
    (RecordScored /\ customer_data.relationship_data.kind = "full") =>
        health_score.relationship_score = RelationshipRubric(customer_data.relationship_data)

\* the penalty rubric of the specification
SupportRubric(sup) ==
    Max(0, Min(100,
        100 - Min(15 * sup.open_tickets, 50)
            - (IF sup.avg_resolution_hours > 72 THEN 20
               ELSE IF sup.avg_resolution_hours > 48 THEN 10 ELSE 0)
            - (IF sup.satisfaction_score < 3 THEN 30
               ELSE IF sup.satisfaction_score < 4 THEN 15 ELSE 0)
            - Min(10 * sup.escalations, 30)))

\* C9 (as claimed): for every record with a support block the support score is 100 less
\* the capped ticket, resolution-time, satisfaction and escalation penalties, clamped
\* to 0..100.
C9_SupportScoreIsPenalised ==
    (RecordScored /\ customer_data.support_data.kind = "full") =>
        health_score.support_score = SupportRubric(customer_data.support_data)

\* C10 (as claimed): an absent usage block scores 0, and a usage block that is present
\* with no logins, no session time, no features and no trend bonus scores 10.
C10_AbsentUsageDiffersFromZeroUsage ==
    RecordScored =>
        /\ customer_data.usage_data.kind = "absent" => health_score.usage_score = 0
        /\ customer_data.usage_data = WeakUsage => health_score.usage_score = 10

----------------------------------------------------------------------------
(* Properties of the server and of the source selection *)

\* handle_call_tool has returned
Answered == pc = "serving" /\ response # NoResponse

\* C11: whatever the tool name, the arguments and the behaviour of the store calls,
\* handle_call_tool returns a text that is a success payload or an error message; no
\* exception leaves it.
C11_HandleCallToolNeverRaises ==
    Answered =>
        /\ ~response.res.raised
        /\ response.res.payload \in {"success", "error"}
        /\ response.res.text # "none"

\* a body raised (rows without company_name; usage_data.get on a list of rows) and
\* the except clause of the branch answered
C11_Witness ==
    /\ Answered
    /\ response.res.text \in {"Error listing customers", "Error getting customer details"}

\* C12 (as claimed): analyze_customer_health with an identifier that matches no
\* customer of the selected source returns an empty list.
C12_UnknownCustomerYieldsEmptyList ==
    (/\ pc = "serving"
     /\ request.stage = "finished"
     /\ request.tool \in {"analyze_customer_health", "get_recommendations"}
     /\ request.customer_id \notin KnownCustomers \cup {"all", "missing"}) =>
        request.task.scores = << >>

\* C13 (as claimed): a set_data_source or connect_to_airtable_base call that reports
\* success = false leaves the four selection fields as they were.
C13_FailedSelectionLeavesStateUnchanged ==
    [][(/\ pc = "serving"
        /\ served' = served + 1
        /\ response' # NoResponse
        /\ response'.res.text \in {"Failed to set data source", "Failed to connect to base"})
       => orchestrator' = orchestrator]_vars

\* C14 (as claimed): a report of analyze_customer_health is collected from, and names
\* in its Data Sources line, the source and the base selected when the request began.
C14_ReportUsesSelectionAtStart ==
    (/\ Answered
     /\ response.tool = "analyze_customer_health"
     /\ response.res.payload = "success") =>
        /\ response.used = response.started
        /\ response.summary = response.started

\* C15 (as claimed): a request of a deadline tool whose collection was not complete
\* when the deadline passed is answered with the timed-out text of its tool, and that
\* text is returned for no other reason.
C15_LateRequestTimesOut ==
    (Answered /\ response.tool \in DeadlineTools) =>
        /\ response.late => response.res.text = TimedOutText(response.tool)
        /\ response.res.text = TimedOutText(response.tool) => response.late
        /\ ~response.res.raised

NoUsableRecommendation ==
    \/ ~env.OPENAI_API_KEY
    \/ store.kind \in {"raises", "none"}
    \/ ParseContent(store.content) = << >>

\* C16: whenever the language model yields no usable recommendation (no API key,
\* the call raising, no parseable line in the answer), AIRecommendationTool
\* returns the rule-based fallback recommendations, a non-empty list of at most
\* three entries.
C16_FallbackWhenNoUsableRecommendation ==
    (pc = "recommending" /\ request.stage = "finished" /\ NoUsableRecommendation)
        => /\ "recommendations" \in response.keys
           /\ response.recommendations = GenerateFallbackRecommendations(request.health_scores)
           /\ Len(response.recommendations) \in 1..3

\* C17: in an 'analyze all' request a failure on one customer drops only that
\* customer: the returned list holds a HealthScore for every other customer of
\* the batch.
C17_FailureDropsOnlyThatCustomer ==
    (pc = "batch" /\ request.stage = "finished")
        => \A i \in 1..Len(store.customers) :
              Constructible(store.customers[i])
                  => \E j \in 1..Len(response.health_scores) :
                        response.health_scores[j].customer_id = i

Analysable(i) ==
    store.tables[i].access = "ok" /\ store.tables[i].sample_records # << >>

SuitabilityScore(i) ==
    ScoreTableForCustomers(store.tables[i].field_mapping, store.tables[i].sample_records,
                           request.customer_email)

Candidates == {i \in 1..Len(store.tables) : Analysable(i)}

DiscoveryReturned == pc = "discovering" /\ request.stage \in {"returned", "finished"}

\* the table at position b has the highest score, and is the first to have it
HighestFirst(b) ==
    /\ b \in Candidates
    /\ \A j \in Candidates :
          /\ SuitabilityScore(j) <= SuitabilityScore(b)
          /\ SuitabilityScore(j) = SuitabilityScore(b) => b <= j

\* C18 as stated: whenever there is an analysable non-empty candidate,
\* _discover_best_table returns the one with the highest score, the first
\* discovered among those that share it.
C18_ReturnsHighestScoringTable ==
    (DiscoveryReturned /\ Candidates # {}) => HighestFirst(request.best.best_table)

\* C18 amended: whenever some analysable non-empty candidate scores above 0,
\* _discover_best_table returns the one with the highest score, the first
\* discovered among those that share it, with that table's field mapping.
C18_ReturnsHighestPositiveTable ==
    (DiscoveryReturned /\ \E i \in Candidates : SuitabilityScore(i) > 0)
        => /\ HighestFirst(request.best.best_table)
           /\ request.best.best_score = SuitabilityScore(request.best.best_table)
           /\ request.best.best_field_mapping
                 = store.tables[request.best.best_table].field_mapping

\* a lower-scoring table comes first, then two tables share the highest score,
\* and the earlier of the two is returned
C18_Witness ==
    /\ DiscoveryReturned
    /\ \E i, j, k \in Candidates :
          /\ i < j /\ j < k
          /\ SuitabilityScore(i) \in 1..(SuitabilityScore(j) - 1)
          /\ SuitabilityScore(j) = SuitabilityScore(k)
          /\ request.best.best_table = j

\* C19: when every candidate table scores 0, or there is no candidate,
\* _discover_best_table selects no table and its caller returns its 'no
\* accessible customer table' error dictionary.
C19_NoTableWhenAllScoreZero ==
    (DiscoveryReturned /\ \A i \in Candidates : SuitabilityScore(i) = 0)
        => /\ request.best.best_table = 0
           /\ request.stage = "finished"
                 => /\ response.kind = "error"
                    /\ response.table = 0
                    /\ response.text \in
                          {"Could not find any accessible table with customer data",
                           "Could not find any accessible customer table in Airtable"}

\* candidates exist, all score 0, and the caller has returned its error
C19_Witness ==
    /\ pc = "discovering" /\ request.stage = "finished"
    /\ Cardinality(Candidates) >= 2
    /\ \A i \in Candidates : SuitabilityScore(i) = 0
    /\ response.kind = "error"

\* C20: for every table whose sampled columns include one named exactly
\* "Email Address", whatever its other columns, _discover_schema binds the key
\* email to the column "Email Address".
C20_EmailAddressColumnIsBound ==
    (pc = "schema" /\ request.stage = "finished"
     /\ \E i \in 1..Len(store.all_fields) : store.all_fields[i] = EmailAddressColumn)
        => response.field_mapping.email = EmailAddressColumn

\* C21: synthesizing a record from the same raw row with the same field
\* mapping twice yields identical records, whenever the two calls are made and
\* whichever rows were processed before.
C21_SynthesisIsIdempotent ==
    pc = "synthesizing"
        => \A i, j \in 1..Len(request.calls) :
              request.calls[i].synthesizer = request.calls[j].synthesizer
                  => request.calls[i].record = request.calls[j].record

\* C22: account_value and contract_value of a synthesized record are always a
\* number, the mapped raw value when it is numeric and 0 when the key is
\* unmapped, the cell is missing or the cell cannot be coerced; a coercion
\* failure never aborts the record.
C22_AccountValueIsAlwaysANumber ==
    pc = "synthesizing"
        => \A i \in 1..Len(request.calls) :
              LET record == request.calls[i].record
                  cell == store.fields.account_value
                  expected ==
                      IF "account_value" \notin store.field_mapping THEN 0
                      ELSE IF cell.type \in {"number", "computed"} THEN cell.num
                      ELSE IF cell.type = "str" /\ ~Float(cell).raised THEN Float(cell).value
                      ELSE 0
              IN  /\ record.status = "record"
                  /\ record.account_value = expected
                  /\ record.contract_value = expected

SchemaDiscovered == pc = "schema" /\ request.stage = "finished"

\* column i equals synonym p, case-insensitively
ExactAt(p, i) == Lower(store.all_fields[i]) = Lower(EmailPatterns[p])

\* column i contains synonym p, case-insensitively
ContainsAt(p, i) == Contains(Lower(EmailPatterns[p]), Lower(store.all_fields[i]))

Columns == 1..Len(store.all_fields)

\* C23: if some column equals some synonym case-insensitively, the column
\* _find_field_by_patterns returns equals the earliest synonym that has an exact
\* match; a column that only contains a synonym is returned only when there is
\* no exact match; the result is one of the given columns, or None exactly when
\* no column contains any synonym.
C23_ExactMatchBeforeSubstring ==
    SchemaDiscovered =>
        LET found == response.field_mapping.email
            synonyms == 1..Len(EmailPatterns)
            exact == {p \in synonyms : \E i \in Columns : ExactAt(p, i)}
            containing == {i \in Columns : \E p \in synonyms : ContainsAt(p, i)}
        IN  /\ found = NoField <=> containing = {}
            /\ found # NoField => \E i \in containing : store.all_fields[i] = found
            /\ exact # {} =>
                  \E p \in exact :
                      /\ \A q \in exact : p <= q
                      /\ Lower(found) = Lower(EmailPatterns[p])

\* a column that only contains "email" is iterated first, columns equal to
\* "e-mail" and to "email" follow, and the one equal to "email" is returned
C23_Witness ==
    /\ SchemaDiscovered
    /\ Len(store.all_fields) = 3
    /\ ~\E p \in 1..Len(EmailPatterns) : ExactAt(p, 1)
    /\ \E p \in 1..Len(EmailPatterns) : ContainsAt(p, 1)
    /\ ExactAt(3, 2)
    /\ ExactAt(2, 3)
    /\ response.field_mapping.email = store.all_fields[3]

\* the confidence score with the email points counted once for the table
ConfidenceWithEmailOnce(table) ==
    LET keyword == IF AnyKeywordIn(CustomerKeywords, table.name) THEN 30 ELSE 0
        email == \E i \in 1..Len(table.fields) : IsEmailField(table.fields[i])
        name == \E i \in 1..Len(table.fields) :
                    AnyKeywordIn(NameKeywords, table.fields[i].name)
    IN  Max(0, Min(100, keyword + SumFieldPoints(table.fields, 0)
                        + (IF email THEN 25 ELSE 0)
                        + (IF email /\ name THEN 20 ELSE 0)
                        - (IF Len(table.fields) < 3 THEN 20 ELSE 0)))

\* C24: the email contribution to a table's confidence score is +25 at most
\* once, however many email-like columns the table has, and the +20
\* email-and-name bonus is added at most once.
C24_EmailPointsCountedOnce ==
    (pc = "confidence" /\ request.stage = "finished")
        => response.score = ConfidenceWithEmailOnce(store)

\* the sample records with the target email left in the first record that
\* holds it only
FirstMatchOnly(sample_records) ==
    [i \in 1..Len(sample_records) |->
        IF sample_records[i] > 0 /\ \A j \in 1..(i - 1) : sample_records[j] = 0
        THEN 1 ELSE 0]

\* C25: when a target is supplied, the target bonus of the table scorer is
\* exactly +20 if at least one sampled cell contains the target and 0
\* otherwise, however many sampled rows contain it: the score of the returned
\* table is the score it has with the target in one row only.
C25_TargetBonusIsTwentyOnce ==
    (DiscoveryReturned /\ request.best.best_table # 0 /\ request.customer_email # "")
        => LET table == store.tables[request.best.best_table]
           IN  request.best.best_score
                  = ScoreTableForCustomers(table.field_mapping,
                                           FirstMatchOnly(table.sample_records),
                                           request.customer_email)

\* C26: in every single-customer lookup a failing or empty formula-filtered
\* read counts as no match and the lookup goes on to the next strategy, ending
\* with a scan of at most 100 rows for the identifier as a substring of a string
\* cell; the customer is reported not found only after that scan found
\* nothing.
C26_NotFoundOnlyAfterScan ==
    (pc = "lookup" /\ request.stage = "finished" /\ response.kind = "error")
        => store.first_match \notin 1..ScanLimit

\* the names probed, in the order of the probes
Probes == SubSeq(request.calls, 2, Len(request.calls))

Readable(table_name) == table_name \in store.readable

\* C27: table discovery makes the metadata query before any probe and probes
\* only when that query fails or yields no tables; the probe result is exactly
\* the probed candidate names whose one-row read succeeded, in the order of the
\* candidate list, and a failing probe of one name does not stop the probing of
\* the names after it.
C27_MetadataBeforeProbing ==
    (pc = "probing" /\ request.stage = "finished")
        => /\ request.calls[1] = "metadata"
           /\ \A i \in 2..Len(request.calls) : request.calls[i] # "metadata"
           /\ Len(request.calls) > 1
                 => /\ store.metadata.kind = "raises" \/ store.metadata.tables = << >>
                    /\ response.table_names = SelectSeq(Probes, Readable)
                    /\ Len(Probes) >= Len(PotentialNames)
                    /\ \A i \in 1..Len(PotentialNames) : Probes[i] = PotentialNames[i]

\* the metadata query raised, the first name probed could not be read, and a
\* later one could
C27_Witness ==
    /\ pc = "probing" /\ request.stage = "finished"
    /\ store.metadata.kind = "raises"
    /\ ~Readable(request.calls[2])
    /\ response.table_names # << >>

\* C28: in every state of an orchestrator reachable from its construction, under
\* any USE_STATIC_DATA / DEFAULT_DATA_SOURCE environment and any sequence of
\* set_data_source and connect_to_airtable_base calls, use_static_data is true
\* exactly when current_data_source is "static".
C28_StaticFlagMatchesCurrentSource ==
    pc = "data_source"
        => (orchestrator.use_static_data <=> orchestrator.current_data_source = "static")

\* C29: for every triple of component scores whose status, derived from the
\* overall score of that same triple, is healthy, the list returned by
\* _generate_recommendations contains the expansion-opportunities
\* recommendation (the cut to three never removes it); and the list is not empty
\* for any triple.
C29_HealthyKeepsExpansionRecommendation ==
    (pc = "done" /\ path = "recommendations")
        => /\ health_score.recommendations # << >>
           /\ (/\ scores_in.health_status = "healthy"
               /\ scores_in.health_status =
                      HealthStatusOf(OverallScore(scores_in.usage_score,
                                                  scores_in.relationship_score,
                                                  scores_in.support_score)))
                 => \E i \in DOMAIN health_score.recommendations :
                       health_score.recommendations[i] = "status_expansion"

\* a healthy triple with two components below 70: the list is full and the
\* status recommendation is its third element
C29_Witness ==
    /\ pc = "done" /\ path = "recommendations"
    /\ scores_in.health_status = "healthy"
    /\ HealthStatusOf(OverallScore(scores_in.usage_score, scores_in.relationship_score,
                                   scores_in.support_score)) = "healthy"
    /\ health_score.recommendations = <<"relationship_qbr", "support_review", "status_expansion">>

\* C30: on the static source, the component scores, the overall score and the
\* status of a customer analysed alone equal those of that customer's entry in
\* the analysis of all customers.
C30_AloneEqualsEntryOfAll ==
    (pc = "static" /\ path = "single" /\ response.kind = "health_scores")
        => /\ health_score.usage_score = response.entry.usage_score
           /\ health_score.relationship_score = response.entry.relationship_score
           /\ health_score.support_score = response.entry.support_score
           /\ health_score.overall_score = response.entry.overall_score
           /\ health_score.health_status = response.entry.health_status

====
